---- MODULE Spec2Model ----
(***************************************************************************)
(* Model of src/index.tsx: the prompt compiler (buildMasterPrompt), the    *)
(* document click handler with its button guard, and the generation        *)
(* actions it dispatches to (product studio, mockup, 3D shifter,           *)
(* turntable, virtual photoshoot).                                         *)
(*                                                                         *)
(* A prompt is modelled as the sequence of its fragments, in the order in  *)
(* which the code pushes them onto promptParts; a fragment is the fixed    *)
(* text of one template (its tag) together with the values interpolated    *)
(* into it (its args).                                                     *)
(***************************************************************************)
EXTENDS Integers, Sequences, FiniteSets, TLC

VARIABLES
    sel,            \* value of every <select> read by the code, by element id
    files,          \* set of file inputs (element ids) that hold a file
    promptText,     \* value of #prompt-input
    negativeText,   \* value of #negative-prompt-input
    masterPrompt,   \* PromptSpec: the string returned by buildMasterPrompt
    built,          \* PromptSpec: TRUE once buildMasterPrompt has returned
    disabled,       \* the disabled property of every button, by element id
    task,           \* the top-level actions started by a click, by task id
    running,        \* the task whose synchronous code is executing, 0 if none
    spinner,        \* the studios whose main spinner is displayed
    errorArea,      \* the text shown in each studio's .error-message-area
    resultContentArea,      \* the content of each studio's result area
    currentDownloadableUrl, \* the image the download button would save, 0 = null
    sceneAssist,    \* position of analyzeForSceneAssist: idle, resize or call
    wizard,         \* the Visual Wizard: its checkbox, spinner and analyses
    image,          \* the decoded image handed to resizeImageFile's onload
    canvas          \* the canvas resizeImageFile draws the image on

promptVars == <<sel, files, promptText, negativeText, masterPrompt, built>>

uiVars == <<disabled, task, running, spinner, errorArea, resultContentArea,
            currentDownloadableUrl, sceneAssist>>

\* The Visual Wizard and the canvas of resizeImageFile.
asideVars == <<wizard, image, canvas>>

vars == <<sel, files, promptText, negativeText, masterPrompt, built,
          disabled, task, running, spinner, errorArea, resultContentArea,
          currentDownloadableUrl, sceneAssist, wizard, image, canvas>>

----------------------------------------------------------------------------
(* Rule tables: the case labels of each switch of buildMasterPrompt that   *)
(* assign a non-empty instruction.                                         *)

ShotTypeTable ==
    {"hero", "full_product", "medium", "closeup", "extreme_closeup", "wide",
     "action", "bokeh", "knolling", "lifestyle", "symmetrical"}

CameraPerspectiveTable ==
    {"front_view", "low_angle", "high_angle", "side_view", "top_down",
     "45_degree", "dutch_angle", "pov", "wide_angle_lens", "telephoto_lens"}

LightingStyleTable ==
    {"soft_studio", "three_point", "natural_daylight", "golden_hour",
     "direct_sunlight", "dramatic_hard", "high_key", "low_key", "butterfly",
     "backlit", "cinematic", "neon", "caustic"}

ShadowStyleTable ==
    {"soft_natural", "strong_defined", "cinematic_dramatic", "high_key",
     "low_key", "rembrandt", "gobo"}

TimeOfDayTable ==
    {"force_daytime", "force_nighttime", "force_golden_hour", "force_blue_hour"}

CameraKitTable ==
    {"ai_hero", "worms_eye", "lay_flat_top_down", "macro_edge_detail",
     "dutch_tilt", "product_portrait", "negative_space", "in_hand_pov",
     "levitation", "mirror_reflection", "glimpse", "exploded_view",
     "backlit_rim", "diagonal_shelf", "swatch_tiles", "splash_pour",
     "light_sweep", "behind_the_glass", "cut_in_top", "comparison"}

ProductRetouchTable ==
    {"cleanup_dust_removal", "edge_refinement", "specular_control",
     "texture_pop", "micro_detail_preservation", "plastic_metal_polish",
     "label_warp_fix", "color_mastering", "variant_generator", "shadow_types",
     "reflection_builder", "relight_ai_depth", "de_band_de_noise",
     "clean_bloom_caustics", "liquid_cleanup", "print_ready_proof",
     "upscale_detail"}

ManipulationKitTable ==
    {"smart_masking_suite", "frequency_separation", "displacement_normal_maps",
     "perspective_match", "shadow_catch_synthesis", "hsl_hdr_match",
     "texture_projection", "liquid_splash_fx", "fog_haze_atmosphere",
     "tilt_shift_dof_craft", "glitch_scanline_subtle", "embossed_outlines",
     "cloth_label_warp", "gradient_map_look", "chromatic_aberration_micro",
     "grain_halation", "motion_trails_smear", "reflection_compositing",
     "neon_rim_pack"}

PeopleRetouchTable ==
    {"natural_skin", "freq_sep_skin", "dodge_burn", "eye_enhancement",
     "hair_cleanup", "clothing_fabric_retouch", "glamour_glow"}

WeatherTable ==
    {"overcast", "light_rain", "heavy_rain", "heavy_fog", "light_snow",
     "blizzard", "stormy", "sandstorm", "surreal_haze"}

SeasonTable == {"spring", "summer", "autumn", "winter"}

\* The case labels of switch (referenceUsage) that assign a directive.
ReferenceDirectiveTable ==
    {"full_scene_emulation", "artistic_style_transfer", "object_swap",
     "lighting_theft", "inpainting_edit", "keep_model_replace_object"}

----------------------------------------------------------------------------
(* Helpers of the prompt compiler.                                         *)

\* One pushed template: the tag names the fixed text, args the values
\* interpolated into it.
Fragment(tag, args) == [tag |-> tag, args |-> args]

\* Mutation: the text is taken as typed.
Untrimmed(s) == s

\* String.prototype.trim on the texts of the model: a whitespace-only text
\* becomes empty, the padded text loses its padding, the others have no
\* surrounding whitespace.
Trim(s) ==
    CASE s = " " -> ""
      [] s = " blurry " -> "blurry"
      [] OTHER -> s

\* element?.value || defaultValue
getSelectedValue(elementId, defaultValue) ==
    IF sel[elementId] = "" THEN defaultValue ELSE sel[elementId]

\* The visible label of the selected <option>; the label of value v is
\* written <<"text", v>>.
getSelectedOptionText(elementId) == <<"text", sel[elementId]>>

\* Mutation: the instruction of a listed value is pushed twice.
RuleFragmentTwice(tag, table, value) ==
    IF value \in table
        THEN <<Fragment(tag, <<value>>), Fragment(tag, <<value>>)>> ELSE <<>>

\* switch (value) { case ...: instruction = "..." }  followed by
\* if (instruction) promptParts.push(`**tag:** ${instruction}`)
RuleFragment(tag, table, value) ==
    IF value \in table THEN <<Fragment(tag, <<value>>)>> ELSE <<>>

hasReferenceImage == "reference-image-input" \in files

\* Mutation: the usage selector is ignored once a reference image is attached.
useReferenceIgnoringUsage(hasReference, referenceUsage) ==
    hasReference

useReference(hasReference, referenceUsage) ==
    hasReference /\ referenceUsage # "none"

\* Mutation: both overrides are required instead of either one.
isInpaintingModeBothOverrides(useRef, weatherAtmosphere, seasonOverride) ==
    ~useRef /\ (weatherAtmosphere # "clear_skies" /\ seasonOverride # "keep_original")

isInpaintingMode(useRef, weatherAtmosphere, seasonOverride) ==
    ~useRef /\ (weatherAtmosphere # "clear_skies" \/ seasonOverride # "keep_original")

\* Mutation: the season change is left out of the list.
InpaintingChangesWeatherOnly(weatherAtmosphere, seasonOverride) ==
    IF weatherAtmosphere # "clear_skies"
        THEN getSelectedOptionText("weather-atmosphere-select") ELSE <<>>

\* [weatherChange, seasonChange].filter(Boolean).join(' and ')
InpaintingChanges(weatherAtmosphere, seasonOverride) ==
    (IF weatherAtmosphere # "clear_skies"
        THEN getSelectedOptionText("weather-atmosphere-select") ELSE <<>>)
    \o (IF seasonOverride # "keep_original"
        THEN getSelectedOptionText("season-override-select") ELSE <<>>)

\* Mutation: the override block is pushed whatever the weather and season.
AtmosphereOverrideAlways(weatherAtmosphere, seasonOverride) ==
    <<Fragment("CRITICAL OVERRIDE", <<"original", "original">>)>>

\* The atmosphere-override block of a reference mode.
AtmosphereOverride(weatherAtmosphere, seasonOverride) ==
    IF weatherAtmosphere # "clear_skies" \/ seasonOverride # "keep_original"
    THEN <<Fragment("CRITICAL OVERRIDE",
              (IF weatherAtmosphere # "clear_skies"
                  THEN getSelectedOptionText("weather-atmosphere-select")
                  ELSE <<"original">>)
              \o (IF seasonOverride # "keep_original"
                  THEN getSelectedOptionText("season-override-select")
                  ELSE <<"original">>))>>
    ELSE <<>>

\* Mutation: the object_swap case lacks its break and falls through to the
\* lighting_theft assignment.
ReferenceDirectiveFallThrough(referenceUsage) ==
    IF referenceUsage = "object_swap" THEN <<"lighting_theft">>
    ELSE IF referenceUsage \in ReferenceDirectiveTable THEN <<referenceUsage>> ELSE <<>>

\* switch (referenceUsage) inside if (useReference)
ReferenceDirective(referenceUsage) ==
    IF referenceUsage \in ReferenceDirectiveTable THEN <<referenceUsage>> ELSE <<>>

\* Mutation: the environmental-interaction block is pushed before the
\* directive as well.
DirectiveAfterInteraction(directiveInstruction) ==
    IF directiveInstruction # <<>>
    THEN <<Fragment("environmentalInteractionEnginePrompt", <<>>),
           Fragment("CRITICAL Directive", directiveInstruction)>>
    ELSE <<>>

\* if (directiveInstruction) promptParts.push(`**CRITICAL Directive:** ...`)
DirectiveFragment(directiveInstruction) ==
    IF directiveInstruction # <<>>
    THEN <<Fragment("CRITICAL Directive", directiveInstruction)>> ELSE <<>>

\* The block "CRITICAL Reference, Inpainting, and Standard Environment Logic"
\* together with the push of the directive.
EnvironmentLogic(referenceUsage, weatherAtmosphere, seasonOverride) ==
    LET useRef == useReference(hasReferenceImage, referenceUsage) IN
    IF useRef
    THEN AtmosphereOverride(weatherAtmosphere, seasonOverride)
         \o DirectiveFragment(ReferenceDirective(referenceUsage))
    ELSE IF isInpaintingMode(useRef, weatherAtmosphere, seasonOverride)
    THEN DirectiveFragment(<<"inpainting task">>
                           \o InpaintingChanges(weatherAtmosphere, seasonOverride))
    ELSE RuleFragment("Weather & Atmosphere", WeatherTable, weatherAtmosphere)
         \o RuleFragment("Season Override", SeasonTable, seasonOverride)

\* Mutation: the blue hour gets the daylight wording.
ProductLightingNightOnly(timeOfDay) ==
    <<Fragment("CRITICAL PRODUCT LIGHTING", <<>>),
      IF timeOfDay = "force_nighttime"
         THEN Fragment("inherent lights illuminated", <<>>)
         ELSE Fragment("brightly lit by the ambient light", <<>>),
      Fragment("surface materials reflect the Lighting Style", <<>>)>>

ProductLighting(timeOfDay) ==
    <<Fragment("CRITICAL PRODUCT LIGHTING", <<>>),
      IF timeOfDay = "force_nighttime" \/ timeOfDay = "force_blue_hour"
         THEN Fragment("inherent lights illuminated", <<>>)
         ELSE Fragment("brightly lit by the ambient light", <<>>),
      Fragment("surface materials reflect the Lighting Style", <<>>)>>

\* Mutation: the switch has no default case, and the instruction of the
\* other qualities stays empty.
QualityWithoutDefault(downloadQuality) ==
    Fragment("Output Quality",
             <<IF downloadQuality \in {"2k", "4k"} THEN downloadQuality ELSE "">>)

\* switch (downloadQuality) with its default case, and the push that follows.
QualityFragment(downloadQuality) ==
    Fragment("Output Quality",
             <<IF downloadQuality \in {"2k", "4k"} THEN downloadQuality ELSE "standard">>)

buildMasterPrompt(subject, negativePrompt) ==
    LET lightingStyle     == getSelectedValue("lighting-style-select", "soft_studio")
        cameraPerspective == getSelectedValue("camera-perspective-select", "front_view")
        shotType          == getSelectedValue("shot-type-select", "hero")
        shadowStyle       == getSelectedValue("lighting-shadow-style-select", "none")
        referenceUsage    == getSelectedValue("reference-usage-select", "full_scene_emulation")
        timeOfDay         == getSelectedValue("time-of-day-select", "keep_original")
        weatherAtmosphere == getSelectedValue("weather-atmosphere-select", "clear_skies")
        seasonOverride    == getSelectedValue("season-override-select", "keep_original")
        downloadQuality   == getSelectedValue("download-quality-select", "1k")
        cameraKit         == getSelectedValue("camera-kit-select", "")
        productRetouch    == getSelectedValue("product-retouch-kit-select", "")
        manipulationKit   == getSelectedValue("manipulation-kit-select", "")
        peopleRetouchKit  == getSelectedValue("people-retouch-kit-select", "")
        promptParts ==
            <<Fragment("ABSOLUTE_REALISM_ENGINE", <<>>)>>
            \o <<IF Trim(subject) # ""
                    THEN Fragment("The core subject of the image is", <<Trim(subject)>>)
                    ELSE Fragment("The core subject is defined by the uploaded Product Image", <<>>)>>
            \o RuleFragment("Composition & Framing", ShotTypeTable, shotType)
            \o RuleFragment("Camera & Lens", CameraPerspectiveTable, cameraPerspective)
            \o RuleFragment("Lighting Environment", LightingStyleTable, lightingStyle)
            \o RuleFragment("Shadow Style", ShadowStyleTable, shadowStyle)
            \o RuleFragment("Time of Day Override", TimeOfDayTable, timeOfDay)
            \o RuleFragment("Camera Kit Directive", CameraKitTable, cameraKit)
            \o RuleFragment("Product Retouch Directive", ProductRetouchTable, productRetouch)
            \o RuleFragment("Manipulation Directive", ManipulationKitTable, manipulationKit)
            \o RuleFragment("People Retouch Directive", PeopleRetouchTable, peopleRetouchKit)
            \o ProductLighting(timeOfDay)
            \o EnvironmentLogic(referenceUsage, weatherAtmosphere, seasonOverride)
            \o <<Fragment("environmentalInteractionEnginePrompt", <<>>)>>
            \o <<QualityFragment(downloadQuality)>>
    IN  IF Trim(negativePrompt) # ""
        THEN Append(promptParts, Fragment("AVOID AT ALL COSTS", <<Trim(negativePrompt)>>))
        ELSE promptParts

----------------------------------------------------------------------------
(* The prompts of the other studios.  Each assembler takes the selects it  *)
(* reads as the function s, so that it can be applied to the selects of    *)
(* any moment.                                                             *)

\* applyGlobalRules: the override instruction, the prompt, the fidelity lock.
applyGlobalRules(originalPrompt, fidelityLock) ==
    <<Fragment("IMPORTANT CONTEXT & ARTISTIC FREEDOM", <<>>)>>
    \o originalPrompt
    \o (IF fidelityLock
            THEN <<Fragment("CRITICAL RULE - FIDELITY LOCK", <<>>)>>
            ELSE <<>>)

\* selectedOptions[0].text: the label of the selected option.
OptionText(s, id) == <<"text", s[id]>>

\* selectedOptions[0] is undefined when the select holds no option, and
\* reading its text raises a TypeError.
OptionsReadable(s, ids) == \A id \in ids : s[id] # ""

MockupApplyTextSelects ==
    {"mockup-background-style-select", "mockup-lighting-mood-select",
     "mockup-camera-angle-select", "mockup-style-select",
     "mockup-color-grade-select"}

MockupGenerateTextSelects ==
    {"ai-mockup-material-select", "ai-mockup-application-style-select",
     "ai-mockup-scene-style-select", "ai-mockup-camera-angle-select",
     "ai-mockup-color-grade-select"}

MockupTextSelects(isApplyMode) ==
    IF isApplyMode THEN MockupApplyTextSelects ELSE MockupGenerateTextSelects

\* The sentence about a hand or a model, empty for interaction style 'none'.
humanInteractionPrompt(s) ==
    LET interactionStyle == s["mockup-interaction-style-select"]
        modelGender == s["mockup-model-gender-select"]
        skinTone == s["mockup-skin-tone-select"]
    IN  IF interactionStyle = "none" THEN <<>>
        ELSE IF interactionStyle = "hand_holding"
                THEN <<"hand holding", skinTone, modelGender>>
                ELSE <<"worn by model", skinTone, modelGender>>

\* The prompt of "Apply design to product"; no final effect is ticked.
MockupApplyPrompt(s) ==
    applyGlobalRules(
        <<Fragment("ABSOLUTE_REALISM_ENGINE", <<>>),
          Fragment("1. Placement", <<>>),
          Fragment("2. Material-Aware Application",
                   <<OptionText(s, "mockup-style-select")>>),
          Fragment("3. Scene Integration",
                   <<OptionText(s, "mockup-camera-angle-select"),
                     OptionText(s, "mockup-background-style-select"),
                     OptionText(s, "mockup-lighting-mood-select")>>
                   \o humanInteractionPrompt(s)),
          Fragment("4. CRITICAL - Physics-Based Blending Engine", <<>>),
          Fragment("CRITICAL ENVIRONMENTAL INTERACTION", <<>>),
          Fragment("5. Final Polish",
                   <<OptionText(s, "mockup-color-grade-select"), "None">>)>>,
        FALSE)

\* The prompt of "Generate from description"; no film effect is ticked.
MockupGeneratePrompt(s, description) ==
    <<Fragment("ABSOLUTE_REALISM_ENGINE", <<>>),
      Fragment("Your mission", <<>>),
      Fragment("1. Generate Object & Scene",
               <<description, OptionText(s, "ai-mockup-material-select")>>),
      Fragment("2. Apply Design",
               <<OptionText(s, "ai-mockup-application-style-select")>>),
      Fragment("3. Direct Photoshoot",
               <<OptionText(s, "ai-mockup-camera-angle-select"),
                 OptionText(s, "ai-mockup-scene-style-select")>>),
      Fragment("CRITICAL ENVIRONMENTAL INTERACTION", <<>>),
      Fragment("4. Final Polish",
               <<OptionText(s, "ai-mockup-color-grade-select"), "None">>),
      Fragment("CRITICAL FOR ARABIC", <<>>)>>

MockupPrompt(isApplyMode, s, description) ==
    IF isApplyMode THEN MockupApplyPrompt(s)
                   ELSE MockupGeneratePrompt(s, description)

ShifterStyleTable ==
    {"photorealistic_render", "claymation_stop_motion", "miniature_diorama",
     "disney_pixar", "anime_cel_shaded", "cartoonish_3d",
     "hand_painted_texture", "low_poly_geometric", "voxel_minecraft",
     "origami_folded_paper", "wireframe_blueprint", "cyberpunk", "steampunk",
     "art_deco", "gothic", "bauhaus", "retro_ps1_n64"}

\* Mutation: a style that is not listed yields no instruction.
get3DStyleInstructionOrNothing(style) ==
    IF style \in ShifterStyleTable THEN <<"CRITICAL STYLE", style>> ELSE <<>>

\* get3DStyleInstruction: the instruction of a listed style, and the
\* standard 3D animation style for any other value.
get3DStyleInstruction(style) ==
    IF style \in ShifterStyleTable
        THEN <<"CRITICAL STYLE", style>>
        ELSE <<"Render in a standard 3D animation style.">>

ShifterLightingTable ==
    {"soft_studio", "dramatic_hard", "three_point", "natural_daylight",
     "cinematic", "backlit"}

\* get3DLightingInstruction: no prompt is assembled with it.
get3DLightingInstruction(lightingStyle) ==
    IF lightingStyle \in ShifterLightingTable
        THEN <<"3D lighting", lightingStyle>>
        ELSE <<"Use standard soft studio lighting.">>

ShifterColorGradeTable ==
    {"vibrant_commercial", "cinematic_teal_orange", "moody_desaturated",
     "warm_vintage", "monochrome_noir"}

\* get3DColorGradeInstruction: no prompt is assembled with it.
get3DColorGradeInstruction(colorGrade) ==
    IF colorGrade \in ShifterColorGradeTable
        THEN <<"3D color grade", colorGrade>>
        ELSE <<"No specific color grade.">>

ShifterDofTable == {"f/1.4", "f/2.8", "f/5.6", "f/11"}

\* The steps of the standard 2D-to-3D transformation, in push order.  The
\* style and the angles were read before the first await, the texture file
\* too; the environment checkbox is not ticked.
ShifterSteps(selectedStyle, selectedAngles, hasTexture, s) ==
    <<Fragment("Create Base Model", <<>>),
      Fragment("Apply 3D Style", get3DStyleInstruction(selectedStyle))>>
    \o (IF hasTexture THEN <<Fragment("Apply Material Texture", <<>>)>> ELSE <<>>)
    \o <<Fragment("CRITICAL LIGHTING", <<OptionText(s, "shifter-lighting-select")>>)>>
    \o (IF s["shifter-dof-select"] \in ShifterDofTable
            THEN <<Fragment("Optical Properties (Depth of Field)",
                            <<s["shifter-dof-select"]>>)>>
            ELSE <<>>)
    \o (IF Len(selectedAngles) > 0
            THEN <<Fragment("ABSOLUTE HIGHEST PRIORITY COMMAND", selectedAngles)>>
            ELSE <<>>)

\* The one prompt of a standard transformation: every selected angle is
\* named in the same prompt.
ShifterPrompt(selectedStyle, selectedAngles, hasTexture, s) ==
    applyGlobalRules(
        <<Fragment("HYPER_STYLED_3D_REALISM_MANDATE", <<>>),
          Fragment("You are a master 3D artist", <<>>)>>
        \o ShifterSteps(selectedStyle, selectedAngles, hasTexture, s)
        \o <<Fragment("FINAL CRITICAL DIRECTIVES",
                      IF Len(selectedAngles) > 0
                          THEN <<"consistent across all rendered angles">>
                          ELSE <<"a single, high-fidelity image">>)>>,
        FALSE)

turntableViews == <<"Front", "Side-Left", "Back", "Side-Right">>

\* The one prompt of a turntable: the four views are named in the same prompt.
TurntablePrompt(s) ==
    applyGlobalRules(
        <<Fragment("HYPER_STYLED_3D_REALISM_MANDATE", <<>>),
          Fragment("Step 1: Create 3D Model", <<>>),
          Fragment("Step 2: Apply 3D Style",
                   get3DStyleInstruction(s["shifter-style-select"])),
          Fragment("Step 3: Render Turntable Views", turntableViews),
          Fragment("CRITICAL FINAL DIRECTIVES", <<>>)>>,
        FALSE)

----------------------------------------------------------------------------
(* The page: its selects, buttons, studios and the tasks started by clicks *)

\* The selects read by buildMasterPrompt.
MasterSelectIds ==
    {"lighting-style-select", "camera-perspective-select", "shot-type-select",
     "lighting-shadow-style-select", "reference-usage-select",
     "time-of-day-select", "weather-atmosphere-select",
     "season-override-select", "download-quality-select", "camera-kit-select",
     "product-retouch-kit-select", "manipulation-kit-select",
     "people-retouch-kit-select"}

\* The selects read by generateMockup in its two modes.
MockupApplySelectIds ==
    {"mockup-background-style-select", "mockup-lighting-mood-select",
     "mockup-camera-angle-select", "mockup-style-select",
     "mockup-color-grade-select", "mockup-interaction-style-select",
     "mockup-model-gender-select", "mockup-skin-tone-select"}

MockupGenerateSelectIds == MockupGenerateTextSelects

\* The selects read by transformTo3DStyle and generateTurntable.
ShifterSelectIds ==
    {"shifter-style-select", "shifter-lighting-select", "shifter-dof-select"}

StudioSelectIds ==
    MockupApplySelectIds \cup MockupGenerateSelectIds \cup ShifterSelectIds

SelectIds == MasterSelectIds \cup StudioSelectIds

\* The value each select holds when the page is loaded: the first option.
InitialSelects ==
    [id \in SelectIds |->
        CASE id = "lighting-style-select" -> "soft_studio"
          [] id = "camera-perspective-select" -> "front_view"
          [] id = "shot-type-select" -> "hero"
          [] id = "lighting-shadow-style-select" -> "none"
          [] id = "reference-usage-select" -> "full_scene_emulation"
          [] id = "time-of-day-select" -> "keep_original"
          [] id = "weather-atmosphere-select" -> "clear_skies"
          [] id = "season-override-select" -> "keep_original"
          [] id = "download-quality-select" -> "1k"
          [] id = "mockup-background-style-select" -> "studio_backdrop"
          [] id = "mockup-lighting-mood-select" -> "bright_airy"
          [] id = "mockup-camera-angle-select" -> "eye_level"
          [] id = "mockup-style-select" -> "screen_print"
          [] id = "mockup-color-grade-select" -> "natural"
          [] id = "mockup-interaction-style-select" -> "none"
          [] id = "mockup-model-gender-select" -> "female"
          [] id = "mockup-skin-tone-select" -> "medium"
          [] id = "ai-mockup-material-select" -> "ceramic"
          [] id = "ai-mockup-application-style-select" -> "screen_print"
          [] id = "ai-mockup-scene-style-select" -> "minimalist"
          [] id = "ai-mockup-camera-angle-select" -> "eye_level"
          [] id = "ai-mockup-color-grade-select" -> "natural"
          [] id = "shifter-style-select" -> "photorealistic_render"
          [] id = "shifter-lighting-select" -> "soft_studio"
          [] id = "shifter-dof-select" -> "none"
          [] OTHER -> ""]

\* The buttons matched by '.btn:not(.tab-btn), .btn-icon' that the click
\* handler dispatches on, and one icon button inside a .tooltip-container.
ActionButtons ==
    {"product-studio-generate-btn", "suggest-prompt-btn",
     "analyze-suggest-button", "ai-image-generator-btn", "generate-mockup-btn",
     "blender-generate-btn", "shifter-3d-btn", "shifter-turntable-btn",
     "start-photoshoot-btn", "download-btn"}

TooltipIcons == {"tooltip-icon"}

Buttons == ActionButtons \cup TooltipIcons

Studios ==
    {"product-studio", "ai-image-generator", "mockup-studio", "image-blender",
     "shifter-3d", "virtual-photoshoot"}

\* The number of top-level actions a behaviour starts.
MaxTasks == 2

TaskIds == 1..MaxTasks

\* A task is one run of the click handler for a generation button.  mode
\* and captured are what the action read before its first await, prompt the
\* prompt once the action has assembled it, invokedPrompt what the same
\* assembly yields from the selects as they were at the click, parts the
\* image parts of its remote call, calls the number of remote calls issued,
\* items the shots, angles or views of a multi-item action, grid the children
\* of its grid container, completions the number of times the action
\* returned to the click handler and alert the message of the alert() box it
\* opened.
NoTask ==
    [kind |-> "none", pc |-> "none", outcome |-> "", mode |-> "",
     captured |-> "", prompt |-> <<>>, invokedPrompt |-> <<>>, parts |-> <<>>,
     calls |-> 0, items |-> <<>>, grid |-> <<>>, completions |-> 0,
     alert |-> ""]

Active(t) == task[t].pc \notin {"none", "done"}

CanStart == \E t \in TaskIds : task[t].kind = "none"

NewTask == CHOOSE t \in TaskIds :
              /\ task[t].kind = "none"
              /\ \A u \in TaskIds : u < t => task[u].kind # "none"

\* No reference image has been chosen yet; the checkbox of the Visual
\* Wizard is not ticked, its spinner hidden, and no analysis was started.
\* file counts the files chosen in #reference-image-input so far, and names
\* the one it holds; analyses lists the runs of analyzeReferenceImage in the
\* order in which they were started.
WizardStart ==
    [checked |-> FALSE, spinner |-> FALSE, label |-> "Visual Wizard",
     file |-> 0, analyses |-> <<>>]

\* No image has been decoded and no canvas created.
NoImage == [width |-> 0, height |-> 0]
NoCanvas == [width |-> 0, height |-> 0, drawn |-> FALSE]

\* The state of the page after DOMContentLoaded.
UIStart ==
    /\ wizard = WizardStart
    /\ image = NoImage
    /\ canvas = NoCanvas
    /\ disabled = [b \in Buttons |-> b = "download-btn"]
    /\ task = [t \in TaskIds |-> NoTask]
    /\ running = 0
    /\ spinner = {}
    /\ errorArea = [s \in Studios |-> "hidden"]
    /\ resultContentArea = [s \in Studios |-> <<>>]
    /\ currentDownloadableUrl = 0
    /\ sceneAssist = "idle"

----------------------------------------------------------------------------
(* PromptSpec: buildMasterPrompt as a pure function of the controls.  The  *)
(* initial states enumerate the control values; BuildPrompt applies the    *)
(* function.                                                               *)

\* The values enumerated for each select: "" is a select without a value,
\* "unlisted" an option no table knows.
PromptValues(id) ==
    CASE id = "reference-usage-select" ->
            ReferenceDirectiveTable \cup {"none", "", "unlisted"}
      [] id = "weather-atmosphere-select" ->
            {"clear_skies", "heavy_rain", "overcast", "", "unlisted"}
      [] id = "season-override-select" ->
            {"keep_original", "winter", "", "unlisted"}
      [] id = "time-of-day-select" ->
            {"keep_original", "force_nighttime", "force_blue_hour", "force_daytime"}
      [] id = "shot-type-select" -> {"hero", "unlisted"}
      [] id = "lighting-style-select" -> {"soft_studio", "golden_hour", ""}
      [] id = "camera-kit-select" -> {"", "ai_hero"}
      [] id = "download-quality-select" -> {"1k", "4k"}
      [] OTHER -> {InitialSelects[id]}

PromptTexts == {"", " ", "a red mug"}
NegativeTexts == {"", "blurry"}

\* The selects varied by PromptSpec take every combination of their values.
SelectsOf(usage, weather, season, timeOfDay, shotType, lighting, kit, quality) ==
    [id \in SelectIds |->
        CASE id = "reference-usage-select" -> usage
          [] id = "weather-atmosphere-select" -> weather
          [] id = "season-override-select" -> season
          [] id = "time-of-day-select" -> timeOfDay
          [] id = "shot-type-select" -> shotType
          [] id = "lighting-style-select" -> lighting
          [] id = "camera-kit-select" -> kit
          [] id = "download-quality-select" -> quality
          [] OTHER -> InitialSelects[id]]

PromptInit ==
    /\ \E usage \in PromptValues("reference-usage-select"),
          weather \in PromptValues("weather-atmosphere-select"),
          season \in PromptValues("season-override-select"),
          timeOfDay \in PromptValues("time-of-day-select"),
          shotType \in PromptValues("shot-type-select"),
          lighting \in PromptValues("lighting-style-select"),
          kit \in PromptValues("camera-kit-select"),
          quality \in PromptValues("download-quality-select") :
            sel = SelectsOf(usage, weather, season, timeOfDay, shotType, lighting, kit, quality)
    /\ files \in SUBSET {"reference-image-input"}
    /\ promptText \in PromptTexts
    /\ negativeText \in NegativeTexts
    /\ masterPrompt = <<>>
    /\ built = FALSE
    /\ UIStart

BuildPrompt ==
    /\ ~built
    /\ masterPrompt' = buildMasterPrompt(promptText, negativeText)
    /\ built' = TRUE
    /\ UNCHANGED <<sel, files, promptText, negativeText>>
    /\ UNCHANGED uiVars
    /\ UNCHANGED asideVars

PromptNext == BuildPrompt

PromptSpec == PromptInit /\ [][PromptNext]_vars

----------------------------------------------------------------------------
(* The document click handler and the single-image studios                  *)

\* The handler returns at once for a disabled button.
HandlerAccepts(buttonId) == ~disabled[buttonId]

\* The handler disables every action button that is not inside a
\* .tooltip-container.
DisableAll(d) == [b \in Buttons |-> IF b \in TooltipIcons THEN d[b] ELSE TRUE]

\* A cleanup that re-enables nothing.
EnableNone(d) == d

\* The handler's finally enables every button but the download button.
EnableAll(d) == [b \in Buttons |-> IF b = "download-btn" THEN d[b] ELSE FALSE]

\* What a remote image call can settle with: a response with an image part,
\* a response without one, a rejection.
Responses == {"image", "no_image", "raise"}

UserInputRequired == "User input required."
UnknownError == "An unknown error occurred."
RemoteError == "remote call rejected"

\* The default of resizeImageFile's maxSize parameter, in pixels.
maxSize == 1024

\* The longer edge, in pixels, of the image files the user attaches: the
\* reference image and the texture are small, the others large.
SmallEdge == 640
LargeEdge == 4000

LongerEdge(inputId) ==
    IF inputId \in {"reference-image-input", "shifter-texture-input"}
        THEN SmallEdge ELSE LargeEdge

\* { text: finalPrompt }
TextPart == [kind |-> "text"]

\* { inlineData: { mimeType: file.type, data: await fileToBase64(file) } }:
\* the bytes of the uploaded file, read as they are.
fileToBase64(inputId) ==
    [kind |-> "image", input |-> inputId, edge |-> LongerEdge(inputId),
     mimeType |-> "file.type", resized |-> FALSE]

\* { inlineData: await resizeImageFile(file) }: the image is drawn on a canvas
\* whose longer edge is at most maxSize and exported as JPEG.
resizeImageFile(inputId) ==
    [kind |-> "image", input |-> inputId,
     edge |-> IF LongerEdge(inputId) > maxSize THEN maxSize ELSE LongerEdge(inputId),
     mimeType |-> "image/jpeg", resized |-> TRUE]

\* Mutation: the quotient is cut off instead of rounded.
Truncated(n, d) == n \div d

\* Math.round(n / d) for positive integers n and d: the nearest integer, a
\* half rounding up.
Round(n, d) == (2 * n + d) \div (2 * d)

\* let { width, height } = img, after the two branches of img.onload.
ScaledSize(width, height) ==
    IF width > height
      THEN IF width > maxSize
             THEN [width |-> maxSize, height |-> Round(height * maxSize, width)]
             ELSE [width |-> width, height |-> height]
      ELSE IF height > maxSize
             THEN [width |-> Round(width * maxSize, height), height |-> maxSize]
             ELSE [width |-> width, height |-> height]

\* img.onload of resizeImageFile: the canvas gets the scaled size and, if it
\* yields a 2d context, the image is drawn on it; without a context the
\* promise is rejected.
ImageLoaded ==
    /\ image # NoImage
    /\ canvas = NoCanvas
    /\ \E hasContext \in BOOLEAN :
        canvas' = [width |-> ScaledSize(image.width, image.height).width,
                   height |-> ScaledSize(image.width, image.height).height,
                   drawn |-> hasContext]
    /\ UNCHANGED <<wizard, image>>
    /\ UNCHANGED promptVars
    /\ UNCHANGED uiVars

\* The action returns to the click handler.
Finished(r, outcome) ==
    [r EXCEPT !.pc = "done", !.outcome = outcome, !.completions = @ + 1]

\* A task that ends inside the click that started it.
Aborted(kind) ==
    [NoTask EXCEPT !.kind = kind, !.pc = "done", !.outcome = "aborted",
                   !.completions = 1]

\* catch and finally of a single-image generator, then the handler's finally.
FailSingle(t, studio, outcome, message) ==
    /\ task' = [task EXCEPT ![t] = Finished(task[t], outcome)]
    /\ errorArea' = [errorArea EXCEPT ![studio] = message]
    /\ resultContentArea' = [resultContentArea EXCEPT ![studio] = <<>>]
    /\ spinner' = spinner \ {studio}
    /\ disabled' = EnableAll(disabled)
    /\ UNCHANGED currentDownloadableUrl

\* The image of the response is shown, the download button enabled, then the
\* generator's finally and the handler's finally run.
SucceedSingle(t, studio) ==
    /\ task' = [task EXCEPT ![t] = Finished(task[t], "success")]
    /\ currentDownloadableUrl' = t
    /\ resultContentArea' = [resultContentArea EXCEPT ![studio] = <<"img", t>>]
    /\ spinner' = spinner \ {studio}
    /\ disabled' = EnableAll([disabled EXCEPT !["download-btn"] = FALSE])
    /\ UNCHANGED errorArea

\* case 'product-studio-generate-btn': the prompt is built in the handler,
\* before generateProductStudioImage is called.
ClickProductStudio ==
    /\ running = 0
    /\ HandlerAccepts("product-studio-generate-btn")
    /\ CanStart
    /\ LET t == NewTask
           referenceUsage ==
               getSelectedValue("reference-usage-select", "full_scene_emulation")
           useRef == useReference(hasReferenceImage, referenceUsage)
           finalPrompt == buildMasterPrompt(promptText, negativeText)
       IN  IF "product-image-input" \notin files
             THEN /\ task' = [task EXCEPT ![t] =
                        [Aborted("product-studio") EXCEPT
                            !.prompt = finalPrompt, !.invokedPrompt = finalPrompt,
                            !.alert = "Please upload a product image first."]]
                  /\ spinner' = spinner \ {"product-studio"}
                  /\ errorArea' = [errorArea EXCEPT !["product-studio"] =
                                        "Please upload a product image first."]
                  /\ disabled' = EnableAll(DisableAll(disabled))
             ELSE /\ task' = [task EXCEPT ![t] =
                        [NoTask EXCEPT !.kind = "product-studio", !.pc = "encode",
                            !.mode = IF useRef THEN "reference" ELSE "plain",
                            !.prompt = finalPrompt, !.invokedPrompt = finalPrompt]]
                  /\ spinner' = spinner \cup {"product-studio"}
                  /\ errorArea' = [errorArea EXCEPT !["product-studio"] = "hidden"]
                  /\ disabled' = DisableAll(disabled)
    /\ resultContentArea' = [resultContentArea EXCEPT !["product-studio"] = <<>>]
    /\ UNCHANGED <<running, currentDownloadableUrl, sceneAssist>>
    /\ UNCHANGED promptVars
    /\ UNCHANGED asideVars

\* What fileToBase64 resolves to: the text after the comma of the data URL,
\* empty for a file of no bytes.
FileData == {"", "base64"}

\* The parts of the product studio's call: the product image, the reference
\* image if the run uses the reference and its data is not empty, and the
\* prompt.
ProductParts(useRef, referenceImageBase64) ==
    IF useRef /\ referenceImageBase64 # ""
      THEN <<fileToBase64("product-image-input"),
             fileToBase64("reference-image-input"), TextPart>>
      ELSE <<fileToBase64("product-image-input"), TextPart>>

\* The awaits of fileToBase64 settle; the remote call is issued.
ProductEncoded(t) ==
    /\ running = 0
    /\ task[t].kind = "product-studio"
    /\ task[t].pc = "encode"
    /\ \E encoded \in BOOLEAN, referenceImageBase64 \in FileData :
        IF encoded
          THEN /\ task' = [task EXCEPT ![t] =
                    [@ EXCEPT !.pc = "call", !.calls = @ + 1,
                        !.parts = ProductParts(task[t].mode = "reference",
                                               referenceImageBase64)]]
               /\ UNCHANGED <<disabled, spinner, errorArea, resultContentArea,
                              currentDownloadableUrl>>
          ELSE FailSingle(t, "product-studio", "raised", UnknownError)
    /\ UNCHANGED <<running, sceneAssist>>
    /\ UNCHANGED promptVars
    /\ UNCHANGED asideVars

\* The remote call of generateProductStudioImage settles.
ProductSettles(t) ==
    /\ running = 0
    /\ task[t].kind = "product-studio"
    /\ task[t].pc = "call"
    /\ \E r \in Responses :
        CASE r = "image" -> SucceedSingle(t, "product-studio")
          [] r = "no_image" ->
                FailSingle(t, "product-studio", "no_payload",
                           "The AI was unable to process this request.")
          [] OTHER -> FailSingle(t, "product-studio", "raised", RemoteError)
    /\ UNCHANGED <<running, sceneAssist>>
    /\ UNCHANGED promptVars
    /\ UNCHANGED asideVars

\* The descriptions typed into ai-mockup-description-input.
Descriptions == {" ", "a ceramic mug"}

\* The alert of the first input check of generateMockup that fails.
MockupAlert(isApplyMode) ==
    IF isApplyMode THEN "Please upload both a design and a product image."
    ELSE IF "mockup-design-image-input" \notin files
        THEN "Please upload a design/logo."
        ELSE "Please describe the mockup you want to create."

MockupInputsPresent(isApplyMode, description) ==
    IF isApplyMode
        THEN {"mockup-design-image-input", "mockup-product-image-input"} \subseteq files
        ELSE "mockup-design-image-input" \in files /\ Trim(description) # ""

\* case 'generate-mockup-btn': generateMockup up to its first await.  The
\* mode radio and the description are read here, the selects are not.
ClickMockup ==
    /\ running = 0
    /\ HandlerAccepts("generate-mockup-btn")
    /\ CanStart
    /\ \E isApplyMode \in BOOLEAN, description \in Descriptions :
        LET t == NewTask
            mode == IF isApplyMode THEN "apply" ELSE "generate"
        IN  IF ~MockupInputsPresent(isApplyMode, description)
              THEN /\ task' = [task EXCEPT ![t] =
                        [Aborted("mockup") EXCEPT !.mode = mode,
                            !.alert = MockupAlert(isApplyMode)]]
                   /\ spinner' = spinner \ {"mockup-studio"}
                   /\ errorArea' = [errorArea EXCEPT !["mockup-studio"] =
                                        UserInputRequired]
                   /\ disabled' = EnableAll(DisableAll(disabled))
              ELSE /\ task' = [task EXCEPT ![t] =
                        [NoTask EXCEPT !.kind = "mockup", !.pc = "resize",
                            !.mode = mode, !.captured = description,
                            !.invokedPrompt =
                                IF OptionsReadable(sel, MockupTextSelects(isApplyMode))
                                    THEN MockupPrompt(isApplyMode, sel, description)
                                    ELSE <<>>]]
                   /\ spinner' = spinner \cup {"mockup-studio"}
                   /\ errorArea' = [errorArea EXCEPT !["mockup-studio"] = "hidden"]
                   /\ disabled' = DisableAll(disabled)
    /\ resultContentArea' = [resultContentArea EXCEPT !["mockup-studio"] = <<>>]
    /\ UNCHANGED <<running, currentDownloadableUrl, sceneAssist>>
    /\ UNCHANGED promptVars
    /\ UNCHANGED asideVars

\* The awaits of resizeImageFile settle: generateMockup now reads the
\* selects, assembles the prompt and issues the remote call.
MockupResized(t) ==
    /\ running = 0
    /\ task[t].kind = "mockup"
    /\ task[t].pc = "resize"
    /\ \E resized \in BOOLEAN :
        LET isApplyMode == task[t].mode = "apply" IN
        IF ~resized
          THEN FailSingle(t, "mockup-studio", "raised", UnknownError)
          ELSE IF ~OptionsReadable(sel, MockupTextSelects(isApplyMode))
          THEN FailSingle(t, "mockup-studio", "raised", "TypeError")
          ELSE /\ task' = [task EXCEPT ![t] =
                    [@ EXCEPT !.pc = "call", !.calls = @ + 1,
                        !.prompt = MockupPrompt(isApplyMode, sel, task[t].captured),
                        !.parts = IF isApplyMode
                                    THEN <<resizeImageFile("mockup-design-image-input"),
                                           resizeImageFile("mockup-product-image-input"),
                                           TextPart>>
                                    ELSE <<resizeImageFile("mockup-design-image-input"),
                                           TextPart>>]]
               /\ UNCHANGED <<disabled, spinner, errorArea, resultContentArea,
                              currentDownloadableUrl>>
    /\ UNCHANGED <<running, sceneAssist>>
    /\ UNCHANGED promptVars
    /\ UNCHANGED asideVars

\* The remote call of generateMockup settles.
MockupSettles(t) ==
    /\ running = 0
    /\ task[t].kind = "mockup"
    /\ task[t].pc = "call"
    /\ \E r \in Responses :
        CASE r = "image" -> SucceedSingle(t, "mockup-studio")
          [] r = "no_image" ->
                FailSingle(t, "mockup-studio", "no_payload",
                           "The AI was unable to generate the mockup.")
          [] OTHER -> FailSingle(t, "mockup-studio", "raised", RemoteError)
    /\ UNCHANGED <<running, sceneAssist>>
    /\ UNCHANGED promptVars
    /\ UNCHANGED asideVars

\* A click on an icon button inside a .tooltip-container: no case of the
\* switch matches its id, and the handler runs from its disabling loop
\* straight to its finally.
ClickTooltip ==
    /\ running = 0
    /\ \E b \in TooltipIcons : HandlerAccepts(b)
    /\ disabled' = EnableAll(DisableAll(disabled))
    /\ UNCHANGED <<task, running, spinner, errorArea, resultContentArea,
                   currentDownloadableUrl, sceneAssist>>
    /\ UNCHANGED promptVars
    /\ UNCHANGED asideVars

\* case 'download-btn': the current image, if any, is saved; nothing is
\* awaited.
ClickDownload ==
    /\ running = 0
    /\ HandlerAccepts("download-btn")
    /\ disabled' = EnableAll(DisableAll(disabled))
    /\ UNCHANGED <<task, running, spinner, errorArea, resultContentArea,
                   currentDownloadableUrl, sceneAssist>>
    /\ UNCHANGED promptVars
    /\ UNCHANGED asideVars

----------------------------------------------------------------------------
(* The 3D shifter: the standard transformation and the turntable.  The     *)
(* operation-mode radio stays on 'standard'.                               *)

\* The angle checkboxes of the standard controls, by label, in page order.
AngleLabels == <<"Front View", "Side View">>

\* The largest number of image parts in one response.
MaxImages == 4

\* The elements of seq at the positions in S, in the order of seq.
RECURSIVE Pick(_, _)
Pick(seq, S) ==
    IF seq = <<>> THEN <<>>
    ELSE LET rest == Pick(Tail(seq), {i - 1 : i \in S \ {1}})
         IN  IF 1 \in S THEN <<Head(seq)>> \o rest ELSE rest

\* A child of a grid container: its header, what it shows, and for a shot
\* with a call of its own the state of that call, its prompt and the
\* response it settled with.
Placeholder(header) ==
    [header |-> header, content |-> "spinner", call |-> "none",
     prompt |-> <<>>, response |-> ""]

Placeholders(headers) == [i \in DOMAIN headers |-> Placeholder(headers[i])]

\* One remote call per turntable or transformation, whatever the number of
\* views or angles; a call per view or angle would be Len(items).
RemoteCallsPerItem(items) == Len(items)

RemoteCalls(items) == 1

\* The header of the item for image i of a response: the angle or view of
\* that position; past the last one a transformation adds no header and a
\* turntable writes "View i".
ItemHeader(headers, i, numbered) ==
    IF i <= Len(headers) THEN headers[i]
    ELSE IF numbered THEN <<"View", i>> ELSE ""

\* The grid after a response with n image parts: the placeholders are
\* dropped, and one item per returned image is added.
RenderedGrid(headers, n, numbered) ==
    [i \in 1..n |->
        [Placeholder(ItemHeader(headers, i, numbered)) EXCEPT !.content = "image"]]

\* catch of transformTo3DStyle and generateTurntable, then the handler's
\* finally: the whole result area is emptied.
FailGrid(t, outcome, message) ==
    /\ task' = [task EXCEPT ![t] = Finished(task[t], outcome)]
    /\ errorArea' = [errorArea EXCEPT !["shifter-3d"] = message]
    /\ resultContentArea' = [resultContentArea EXCEPT !["shifter-3d"] = <<>>]
    /\ spinner' = spinner \ {"shifter-3d"}
    /\ disabled' = EnableAll(disabled)

\* The response of the one call settles: every image or none.
GridSettles(t, headers, numbered, noImageMessage) ==
    \E n \in (0..MaxImages) \cup {-1} :
        IF n = -1 THEN FailGrid(t, "raised", RemoteError)
        ELSE IF n = 0 THEN FailGrid(t, "no_payload", noImageMessage)
        ELSE /\ task' = [task EXCEPT ![t] =
                    [Finished(task[t], "success") EXCEPT
                        !.grid = RenderedGrid(headers, n, numbered)]]
             /\ disabled' = EnableAll(disabled)
             /\ UNCHANGED <<errorArea, resultContentArea, spinner>>

\* case 'shifter-3d-btn': transformTo3DStyle up to its first await.  The
\* style and the ticked angles are read here.
ClickShifter3D ==
    /\ running = 0
    /\ HandlerAccepts("shifter-3d-btn")
    /\ CanStart
    /\ \E S \in SUBSET DOMAIN AngleLabels :
        LET t == NewTask
            selectedStyle == sel["shifter-style-select"]
            selectedAngles == Pick(AngleLabels, S)
            anglesToRender == IF Len(selectedAngles) > 0 THEN selectedAngles ELSE <<"">>
            hasTexture == "shifter-texture-input" \in files
        IN  IF "shifter-2d-image-input" \notin files
              THEN /\ task' = [task EXCEPT ![t] =
                        [Aborted("shifter-3d") EXCEPT !.mode = "standard",
                            !.alert = "Please upload a 2D Illustration to transform."]]
                   /\ errorArea' = [errorArea EXCEPT !["shifter-3d"] = UserInputRequired]
                   /\ resultContentArea' =
                        [resultContentArea EXCEPT !["shifter-3d"] = <<>>]
                   /\ disabled' = EnableAll(DisableAll(disabled))
              ELSE /\ task' = [task EXCEPT ![t] =
                        [NoTask EXCEPT !.kind = "shifter-3d", !.pc = "resize",
                            !.mode = "standard", !.captured = selectedStyle,
                            !.items = selectedAngles,
                            !.grid = Placeholders(anglesToRender),
                            !.invokedPrompt =
                                ShifterPrompt(selectedStyle, selectedAngles,
                                              hasTexture, sel)]]
                   /\ errorArea' = [errorArea EXCEPT !["shifter-3d"] = "hidden"]
                   /\ resultContentArea' =
                        [resultContentArea EXCEPT !["shifter-3d"] = <<"grid", t>>]
                   /\ disabled' = DisableAll(disabled)
    /\ spinner' = spinner \ {"shifter-3d"}
    /\ UNCHANGED <<running, currentDownloadableUrl, sceneAssist>>
    /\ UNCHANGED promptVars
    /\ UNCHANGED asideVars

\* The awaits of resizeImageFile settle: the lighting and depth-of-field
\* selects are read now, and the one remote call is issued.
ShifterResized(t) ==
    /\ running = 0
    /\ task[t].kind = "shifter-3d"
    /\ task[t].pc = "resize"
    /\ \E resized \in BOOLEAN :
        LET hasTexture == "shifter-texture-input" \in files IN
        IF ~resized
          THEN FailGrid(t, "raised", UnknownError)
          ELSE IF ~OptionsReadable(sel, {"shifter-lighting-select"})
          THEN FailGrid(t, "raised", "TypeError")
          ELSE /\ task' = [task EXCEPT ![t] =
                    [@ EXCEPT !.pc = "call",
                        !.calls = @ + RemoteCalls(task[t].grid),
                        !.prompt = ShifterPrompt(task[t].captured, task[t].items,
                                                 hasTexture, sel),
                        !.parts = IF hasTexture
                                    THEN <<resizeImageFile("shifter-2d-image-input"),
                                           resizeImageFile("shifter-texture-input"),
                                           TextPart>>
                                    ELSE <<resizeImageFile("shifter-2d-image-input"),
                                           TextPart>>]]
               /\ UNCHANGED <<disabled, spinner, errorArea, resultContentArea>>
    /\ UNCHANGED <<running, currentDownloadableUrl, sceneAssist>>
    /\ UNCHANGED promptVars
    /\ UNCHANGED asideVars

\* The remote call of transformTo3DStyle settles.
ShifterSettles(t) ==
    /\ running = 0
    /\ task[t].kind = "shifter-3d"
    /\ task[t].pc = "call"
    /\ GridSettles(t, task[t].items, FALSE,
                   "The AI could not generate any images for this transformation.")
    /\ UNCHANGED <<running, currentDownloadableUrl, sceneAssist>>
    /\ UNCHANGED promptVars
    /\ UNCHANGED asideVars

\* case 'shifter-turntable-btn': generateTurntable up to its first await.
ClickTurntable ==
    /\ running = 0
    /\ HandlerAccepts("shifter-turntable-btn")
    /\ CanStart
    /\ LET t == NewTask IN
        IF "shifter-2d-image-input" \notin files
          THEN /\ task' = [task EXCEPT ![t] =
                    [Aborted("turntable") EXCEPT !.alert =
                        "Please upload a 2D Illustration to generate a turntable."]]
               /\ errorArea' = [errorArea EXCEPT !["shifter-3d"] = UserInputRequired]
               /\ resultContentArea' = [resultContentArea EXCEPT !["shifter-3d"] = <<>>]
               /\ disabled' = EnableAll(DisableAll(disabled))
          ELSE /\ task' = [task EXCEPT ![t] =
                    [NoTask EXCEPT !.kind = "turntable", !.pc = "resize",
                        !.items = turntableViews,
                        !.grid = Placeholders(turntableViews),
                        !.invokedPrompt = TurntablePrompt(sel)]]
               /\ errorArea' = [errorArea EXCEPT !["shifter-3d"] = "hidden"]
               /\ resultContentArea' =
                    [resultContentArea EXCEPT !["shifter-3d"] = <<"grid", t>>]
               /\ disabled' = DisableAll(disabled)
    /\ spinner' = spinner \ {"shifter-3d"}
    /\ UNCHANGED <<running, currentDownloadableUrl, sceneAssist>>
    /\ UNCHANGED promptVars
    /\ UNCHANGED asideVars

\* The await of resizeImageFile settles: the style select is read now, and
\* the one remote call is issued.
TurntableResized(t) ==
    /\ running = 0
    /\ task[t].kind = "turntable"
    /\ task[t].pc = "resize"
    /\ \E resized \in BOOLEAN :
        IF ~resized
          THEN FailGrid(t, "raised", UnknownError)
          ELSE /\ task' = [task EXCEPT ![t] =
                    [@ EXCEPT !.pc = "call",
                        !.calls = @ + RemoteCalls(task[t].grid),
                        !.captured = sel["shifter-style-select"],
                        !.prompt = TurntablePrompt(sel),
                        !.parts = <<resizeImageFile("shifter-2d-image-input"),
                                    TextPart>>]]
               /\ UNCHANGED <<disabled, spinner, errorArea, resultContentArea>>
    /\ UNCHANGED <<running, currentDownloadableUrl, sceneAssist>>
    /\ UNCHANGED promptVars
    /\ UNCHANGED asideVars

\* The remote call of generateTurntable settles.
TurntableSettles(t) ==
    /\ running = 0
    /\ task[t].kind = "turntable"
    /\ task[t].pc = "call"
    /\ GridSettles(t, turntableViews, TRUE,
                   "The AI could not generate turntable views.")
    /\ UNCHANGED <<running, currentDownloadableUrl, sceneAssist>>
    /\ UNCHANGED promptVars
    /\ UNCHANGED asideVars

----------------------------------------------------------------------------
(* The virtual photoshoot                                                   *)

\* Three of the shot checkboxes, in page order: a standard angle, a creative
\* shot with water and a creative shot without.
ShotCatalog ==
    <<[title |-> "Front View", prompt |-> "front", isStandard |-> TRUE],
      [title |-> "Splash Shot", prompt |-> "splash", isStandard |-> FALSE],
      [title |-> "Packaging Shot", prompt |-> "packaging", isStandard |-> FALSE]>>

\* The largest number of shots ticked for one batch.
MaxShots == 2

\* Mutation: the snow scenario is listed among the water scenarios.
waterRelatedScenariosAndSnow ==
    {"Splash Shot", "Product submerged in water", "In nature (with dew drops)",
     "On a Sandy Beach", "Reflection Shot", "Product covered in snow"}

waterRelatedScenarios ==
    {"Splash Shot", "Product submerged in water", "In nature (with dew drops)",
     "On a Sandy Beach", "Reflection Shot"}

StandardAngleTable ==
    {"Front View", "Back View", "Side Profile", "Top-Down / Flat Lay",
     "Low Angle View", "High Angle View", "45-Degree View", "Isometric View"}

ScenarioTable ==
    {"On a Modern Kitchen Counter", "On a Sandy Beach", "On a Rustic Wooden Table",
     "In a Lush Green Forest", "On a windowsill (morning light)",
     "In nature (with dew drops)", "On Cafe Table (Hands Nearby)",
     "Unboxing Scene (Hands Only)", "Held by Model (Close-up)", "Packaging Shot",
     "Splash Shot", "Product in Action / Use Case", "Bokeh Shot (Shallow Depth)",
     "Wide-Angle Lens", "Reflection Shot", "Long Shadow Shot",
     "Floating / Suspended Shot", "Product submerged in water",
     "Product covered in snow", "Product interacting with smoke/fog",
     "Product covered in petals"}

\* The environmental interaction block of one shot: the water rule and the
\* water wording only for a water scenario.
dynamicEnvironmentalInteractionPrompt(shot) ==
    LET isWaterScenario == shot.title \in waterRelatedScenarios IN
    Fragment("CRITICAL ENVIRONMENTAL INTERACTION",
        (IF isWaterScenario
            THEN <<"Analyze Environment (water, dust, rain, surfaces)",
                   "Water Interaction">>
            ELSE <<"Analyze Environment (dust, surfaces)">>)
        \o <<"Surface Interaction", "Weathering/Aging", "Condensation",
             "Reflections">>)

\* The prompt of one shot, with the variation token of its call.
ShotPrompt(shot, token) ==
    applyGlobalRules(
        IF shot.isStandard
          THEN <<Fragment("ABSOLUTE_REALISM_ENGINE", <<>>),
                 Fragment("angleInstruction",
                          IF shot.title \in StandardAngleTable
                              THEN <<shot.title>> ELSE <<>>),
                 Fragment("Product Image", <<>>),
                 Fragment("Background Requirement", <<>>),
                 Fragment("CRITICAL SHADOW REQUIREMENT", <<>>),
                 dynamicEnvironmentalInteractionPrompt(shot)>>
          ELSE <<Fragment("ABSOLUTE_REALISM_ENGINE", <<>>),
                 Fragment("Product Image", <<>>),
                 Fragment("scenarioInstruction",
                          IF shot.title \in ScenarioTable
                              THEN <<shot.title>> ELSE <<"CRITICAL SCENE", shot.prompt>>),
                 Fragment("CRITICAL LIFESTYLE REALISM ENHANCEMENTS", <<>>),
                 dynamicEnvironmentalInteractionPrompt(shot)>>,
        FALSE)
    \o <<Fragment("variation_id", token)>>

\* Mutation: the shot renders whatever the call settled with as an image.
ShotRendersAnything(r) == "image"

\* What the shot's own try and catch leave in its placeholder.
ShotContent(r) == IF r = "image" THEN "image" ELSE "error"

\* A shot that lets its failure out of its own async function.
ShotRethrowsFailure(r) == r # "image"

\* The catch of a shot swallows every failure: nothing is thrown again.
ShotRethrows(r) == FALSE

\* A join that is over with the first settled shot.
AnySettled(g) == \E i \in DOMAIN g : g[i].call = "settled"

\* Mutation: only the promise of the last shot is awaited.
LastSettled(g) == g[Len(g)].call = "settled"

\* Promise.all over the shots' promises.
AllSettled(g) == \A i \in DOMAIN g : g[i].call = "settled"

\* A page on which a call could settle in the middle of the map.
CanSettleAnytime == TRUE

\* A settled call is handled only once the running synchronous code is over.
CanSettle == running = 0

\* case 'start-photoshoot-btn': startVirtualPhotoshoot up to its first
\* await.  The ticked shots are read here.
ClickPhotoshoot ==
    /\ running = 0
    /\ HandlerAccepts("start-photoshoot-btn")
    /\ CanStart
    /\ \E S \in SUBSET DOMAIN ShotCatalog :
        /\ Cardinality(S) <= MaxShots
        /\ LET t == NewTask
               selectedShots == Pick(ShotCatalog, S)
           IN  IF "photoshoot-product-image-input" \notin files
                    \/ Len(selectedShots) = 0
                 THEN /\ task' = [task EXCEPT ![t] =
                            [Aborted("photoshoot") EXCEPT !.alert =
                                IF "photoshoot-product-image-input" \notin files
                                    THEN "Please upload a Product Image to start the photoshoot."
                                    ELSE "Please select at least one shot type for the photoshoot."]]
                      /\ errorArea' = [errorArea EXCEPT !["virtual-photoshoot"] =
                                            UserInputRequired]
                      /\ resultContentArea' =
                            [resultContentArea EXCEPT !["virtual-photoshoot"] = <<>>]
                      /\ disabled' = EnableAll(DisableAll(disabled))
                 ELSE /\ task' = [task EXCEPT ![t] =
                            [NoTask EXCEPT !.kind = "photoshoot", !.pc = "resize",
                                !.items = selectedShots]]
                      /\ errorArea' = [errorArea EXCEPT !["virtual-photoshoot"] =
                                            "hidden"]
                      /\ resultContentArea' =
                            [resultContentArea EXCEPT !["virtual-photoshoot"] =
                                <<"grid", t>>]
                      /\ disabled' = DisableAll(disabled)
    /\ spinner' = spinner \ {"virtual-photoshoot"}
    /\ UNCHANGED <<running, currentDownloadableUrl, sceneAssist>>
    /\ UNCHANGED promptVars
    /\ UNCHANGED asideVars

\* The outer catch of startVirtualPhotoshoot, then the handler's finally.
FailBatch(t, r, outcome, message) ==
    /\ task' = [task EXCEPT ![t] = Finished(r, outcome)]
    /\ errorArea' = [errorArea EXCEPT !["virtual-photoshoot"] = message]
    /\ spinner' = spinner \ {"virtual-photoshoot"}
    /\ disabled' = EnableAll(disabled)

\* The await of resizeImageFile settles: the map over the shots begins.
PhotoshootResized(t) ==
    /\ running = 0
    /\ task[t].kind = "photoshoot"
    /\ task[t].pc = "resize"
    /\ \E resized \in BOOLEAN :
        IF resized
          THEN /\ task' = [task EXCEPT ![t] = [@ EXCEPT !.pc = "map"]]
               /\ running' = t
               /\ UNCHANGED <<disabled, spinner, errorArea>>
          ELSE /\ FailBatch(t, task[t], "setup_failed",
                            "An unknown error occurred during setup.")
               /\ UNCHANGED running
    /\ UNCHANGED <<resultContentArea, currentDownloadableUrl, sceneAssist>>
    /\ UNCHANGED promptVars
    /\ UNCHANGED asideVars

\* One iteration of selectedShots.map: the placeholder of the shot is
\* appended to the grid, then the shot's async function runs up to its
\* await, which starts the shot's remote call.  After the last iteration
\* startVirtualPhotoshoot awaits Promise.all.
MapShot(t) ==
    /\ running = t
    /\ task[t].pc = "map"
    /\ LET i == Len(task[t].grid) + 1
           shot == task[t].items[i]
           last == i = Len(task[t].items)
       IN  /\ task' = [task EXCEPT ![t] =
                [@ EXCEPT !.grid = Append(@,
                              [Placeholder(shot.title) EXCEPT
                                  !.call = "pending",
                                  !.prompt = ShotPrompt(shot, <<t, i>>)]),
                          !.calls = @ + 1,
                          !.parts = <<resizeImageFile("photoshoot-product-image-input"),
                                      TextPart>>,
                          !.pc = IF last THEN "join" ELSE "map"]]
           /\ running' = IF last THEN 0 ELSE t
    /\ UNCHANGED <<disabled, spinner, errorArea, resultContentArea,
                   currentDownloadableUrl, sceneAssist>>
    /\ UNCHANGED promptVars
    /\ UNCHANGED asideVars

\* The remote call of shot i settles.  The shot writes its own placeholder;
\* when the join is over startVirtualPhotoshoot returns and the handler's
\* finally runs.
ShotSettles(t, i) ==
    /\ CanSettle
    /\ task[t].kind = "photoshoot"
    /\ i \in DOMAIN task[t].grid
    /\ task[t].grid[i].call = "pending"
    /\ \E r \in Responses :
        LET settled == [task[t] EXCEPT
                            !.grid[i].call = "settled",
                            !.grid[i].response = r,
                            !.grid[i].content =
                                IF ShotRethrows(r) THEN @ ELSE ShotContent(r)]
        IN  IF ShotRethrows(r) /\ task[t].pc = "join"
              THEN FailBatch(t, settled, "raised", RemoteError)
            ELSE IF settled.pc = "join" /\ AllSettled(settled.grid)
              THEN /\ task' = [task EXCEPT ![t] = Finished(settled, "success")]
                   /\ disabled' = EnableAll(disabled)
                   /\ UNCHANGED <<spinner, errorArea>>
            ELSE /\ task' = [task EXCEPT ![t] = settled]
                 /\ UNCHANGED <<disabled, spinner, errorArea>>
    /\ UNCHANGED <<running, resultContentArea, currentDownloadableUrl, sceneAssist>>
    /\ UNCHANGED promptVars
    /\ UNCHANGED asideVars

----------------------------------------------------------------------------
(* The image blender, and the clone and text modes of the 3D shifter       *)

\* The first two of the eight image slots of the blender, in page order.
BlenderInputs == <<"blender-image-input-1", "blender-image-input-2">>

\* The values of a blender-role-select that the model uses.
BlenderRoles == {"not_used", "Subject", "Background / Scene"}

\* The texts typed into blender-prompt-input.
BlenderTexts == {" ", "blend them"}

\* The slots the loop of synthesizeImage resizes: a file is attached and the
\* role is not 'not_used'.
BlenderUsed(roles) ==
    Pick([i \in DOMAIN BlenderInputs |-> [input |-> BlenderInputs[i], role |-> roles[i]]],
         {i \in DOMAIN BlenderInputs :
             BlenderInputs[i] \in files /\ roles[i] # "not_used"})

\* The elements of seq with the given role.
RECURSIVE WithRole(_, _)
WithRole(seq, role) ==
    IF seq = <<>> THEN <<>>
    ELSE (IF Head(seq).role = role THEN <<Head(seq)>> ELSE <<>>)
         \o WithRole(Tail(seq), role)

\* parts: every 'Subject' image, then the first 'Background / Scene' image.
BlenderImages(used) ==
    LET subjects == WithRole(used, "Subject")
        backgrounds == WithRole(used, "Background / Scene")
        kept == subjects \o (IF backgrounds # <<>> THEN <<Head(backgrounds)>> ELSE <<>>)
    IN  [i \in DOMAIN kept |-> resizeImageFile(kept[i].input)]

\* The creative brief of synthesizeImage.
BlenderPrompt(used, userPrompt) ==
    LET subjects == WithRole(used, "Subject")
        hasBackground == WithRole(used, "Background / Scene") # <<>>
        assetInventory ==
            (IF subjects # <<>> THEN <<<<"Subject", Len(subjects)>>>> ELSE <<>>)
            \o (IF hasBackground THEN <<<<"Background / Scene", 1>>>> ELSE <<>>)
    IN  <<Fragment("ABSOLUTE_REALISM_ENGINE", <<>>),
          Fragment("CREATIVE BRIEF: MASTER COMPOSITOR", <<>>),
          Fragment("You are a world-class digital artist and compositor", <<>>)>>
        \o (IF assetInventory # <<>>
                THEN <<Fragment("VISUAL ASSETS PROVIDED", assetInventory)>> ELSE <<>>)
        \o <<Fragment("CORE CREATIVE CONCEPT",
                      <<IF userPrompt # "" THEN userPrompt ELSE "Creatively combine">>),
             Fragment("DETAILED EXECUTION DIRECTIVES", <<>>),
             Fragment("1. Scene & Environment",
                      <<IF hasBackground THEN "provided" ELSE "generated">>)>>
        \o (IF subjects # <<>>
                THEN <<Fragment("2. Subject Placement & Fidelity", <<>>)>> ELSE <<>>)
        \o <<Fragment("4. Environmental Integration & Realism", <<>>),
             Fragment("5. Final Blending & Polish", <<>>)>>

BlenderInputMissing ==
    "Please upload at least two images with roles, or describe the scene you want to create."

\* Mutation: the input check of the blender is skipped.
BlenderInputsUnchecked(used, userPrompt) == TRUE

\* validImageCount < 2 && !userPrompt
BlenderInputsPresent(used, userPrompt) == ~(Len(used) < 2 /\ userPrompt = "")

\* The input check of synthesizeImage fails: its message is shown, the catch
\* leaves it in place and empties the result area, then the finally of the
\* generator and the finally of the handler run.
AbortBlender(t, r, d) ==
    /\ task' = [task EXCEPT ![t] = Finished(r, "aborted")]
    /\ errorArea' = [errorArea EXCEPT !["image-blender"] = BlenderInputMissing]
    /\ resultContentArea' = [resultContentArea EXCEPT !["image-blender"] = <<>>]
    /\ spinner' = spinner \ {"image-blender"}
    /\ disabled' = EnableAll(d)

\* The remote call of synthesizeImage is issued.
CallBlender(r) ==
    [r EXCEPT !.pc = "call", !.calls = @ + 1,
              !.prompt = BlenderPrompt(r.items, r.captured),
              !.parts = BlenderImages(r.items) \o <<TextPart>>]

\* case 'blender-generate-btn': synthesizeImage up to its first await.  The
\* text is read here; with no slot to resize the loop awaits nothing and the
\* input check, and the remote call, follow within the click.
ClickBlender ==
    /\ running = 0
    /\ HandlerAccepts("blender-generate-btn")
    /\ CanStart
    /\ \E roles \in [DOMAIN BlenderInputs -> BlenderRoles], text \in BlenderTexts :
        LET t == NewTask
            used == BlenderUsed(roles)
            userPrompt == Trim(text)
            started == [NoTask EXCEPT !.kind = "blender", !.pc = "resize",
                                      !.captured = userPrompt, !.items = used]
        IN  IF used = <<>> /\ ~BlenderInputsPresent(used, userPrompt)
              THEN AbortBlender(t, started, DisableAll(disabled))
              ELSE /\ task' = [task EXCEPT ![t] =
                        IF used = <<>> THEN CallBlender(started) ELSE started]
                   /\ spinner' = spinner \cup {"image-blender"}
                   /\ errorArea' = [errorArea EXCEPT !["image-blender"] = "hidden"]
                   /\ resultContentArea' =
                        [resultContentArea EXCEPT !["image-blender"] = <<>>]
                   /\ disabled' = DisableAll(disabled)
    /\ UNCHANGED <<running, currentDownloadableUrl, sceneAssist>>
    /\ UNCHANGED promptVars
    /\ UNCHANGED asideVars

\* The awaits of resizeImageFile settle: the input check follows, then the
\* remote call.
BlenderResized(t) ==
    /\ running = 0
    /\ task[t].kind = "blender"
    /\ task[t].pc = "resize"
    /\ \E resized \in BOOLEAN :
        IF ~resized
          THEN FailSingle(t, "image-blender", "raised", UnknownError)
        ELSE IF ~BlenderInputsPresent(task[t].items, task[t].captured)
          THEN /\ AbortBlender(t, task[t], disabled)
               /\ UNCHANGED currentDownloadableUrl
        ELSE /\ task' = [task EXCEPT ![t] = CallBlender(task[t])]
             /\ UNCHANGED <<disabled, spinner, errorArea, resultContentArea,
                            currentDownloadableUrl>>
    /\ UNCHANGED <<running, sceneAssist>>
    /\ UNCHANGED promptVars
    /\ UNCHANGED asideVars

\* The remote call of synthesizeImage settles.
BlenderSettles(t) ==
    /\ running = 0
    /\ task[t].kind = "blender"
    /\ task[t].pc = "call"
    /\ \E r \in Responses :
        CASE r = "image" -> SucceedSingle(t, "image-blender")
          [] r = "no_image" ->
                FailSingle(t, "image-blender", "no_payload",
                           "The AI could not synthesize an image from the provided inputs.")
          [] OTHER -> FailSingle(t, "image-blender", "raised", RemoteError)
    /\ UNCHANGED <<running, sceneAssist>>
    /\ UNCHANGED promptVars
    /\ UNCHANGED asideVars

\* The operation modes of transformTo3DStyle with one placeholder and one
\* returned image.
StyledModes == {"clone", "text"}

\* The texts typed into shifter-text-prompt-input.
StyleDescriptions == {" ", "puffy plastic"}

StyledInputsPresent(operationMode, styleDescription) ==
    IF operationMode = "clone"
        THEN {"shifter-2d-image-input", "shifter-style-reference-input"} \subseteq files
        ELSE "shifter-2d-image-input" \in files /\ styleDescription # ""

\* The alert of the first input check of the mode that fails.
StyledAlert(operationMode) ==
    IF operationMode = "clone"
        THEN "Please upload both a 2D Illustration and a 3D Style Reference image for cloning."
    ELSE IF "shifter-2d-image-input" \notin files
        THEN "Please upload a 2D Illustration to transform."
        ELSE "Please describe the 3D style you want to generate."

StyledPrompt(operationMode, styleDescription) ==
    applyGlobalRules(
        IF operationMode = "clone"
            THEN <<Fragment("COMPLETE 3D STYLE CLONE", <<>>)>>
            ELSE <<Fragment("HYPER_STYLED_3D_REALISM_MANDATE", <<>>),
                   Fragment("You are a master 3D artist", <<>>),
                   Fragment("STEP 1: Create Base Model", <<>>),
                   Fragment("STEP 2 (CRITICAL)", <<styleDescription>>),
                   Fragment("STEP 3: Apply Style", <<>>)>>,
        FALSE)

StyledParts(operationMode) ==
    <<resizeImageFile("shifter-2d-image-input")>>
    \o (IF operationMode = "clone"
            THEN <<resizeImageFile("shifter-style-reference-input")>> ELSE <<>>)
    \o <<TextPart>>

StyledNoImage(operationMode) ==
    IF operationMode = "clone" THEN "NO_IMAGE_RETURNED"
    ELSE "The AI was unable to generate an image from your description."

\* case 'shifter-3d-btn' with the operation-mode radio on 'clone' or 'text':
\* transformTo3DStyle up to its first await.
ClickShifterStyled ==
    /\ running = 0
    /\ HandlerAccepts("shifter-3d-btn")
    /\ CanStart
    /\ \E operationMode \in StyledModes, text \in StyleDescriptions :
        LET t == NewTask
            styleDescription == Trim(text)
        IN  IF ~StyledInputsPresent(operationMode, styleDescription)
              THEN /\ task' = [task EXCEPT ![t] =
                        [Aborted("shifter-styled") EXCEPT !.mode = operationMode,
                            !.alert = StyledAlert(operationMode)]]
                   /\ errorArea' = [errorArea EXCEPT !["shifter-3d"] = UserInputRequired]
                   /\ resultContentArea' =
                        [resultContentArea EXCEPT !["shifter-3d"] = <<>>]
                   /\ disabled' = EnableAll(DisableAll(disabled))
              ELSE /\ task' = [task EXCEPT ![t] =
                        [NoTask EXCEPT !.kind = "shifter-styled", !.pc = "resize",
                            !.mode = operationMode,
                            !.captured = IF operationMode = "text"
                                            THEN styleDescription ELSE "",
                            !.grid = <<Placeholder("")>>]]
                   /\ errorArea' = [errorArea EXCEPT !["shifter-3d"] = "hidden"]
                   /\ resultContentArea' =
                        [resultContentArea EXCEPT !["shifter-3d"] = <<"grid", t>>]
                   /\ disabled' = DisableAll(disabled)
    /\ spinner' = spinner \ {"shifter-3d"}
    /\ UNCHANGED <<running, currentDownloadableUrl, sceneAssist>>
    /\ UNCHANGED promptVars
    /\ UNCHANGED asideVars

\* The awaits of resizeImageFile settle and the one remote call is issued.
ShifterStyledResized(t) ==
    /\ running = 0
    /\ task[t].kind = "shifter-styled"
    /\ task[t].pc = "resize"
    /\ \E resized \in BOOLEAN :
        IF ~resized
          THEN FailGrid(t, "raised", UnknownError)
          ELSE /\ task' = [task EXCEPT ![t] =
                    [@ EXCEPT !.pc = "call", !.calls = @ + 1,
                        !.prompt = StyledPrompt(task[t].mode, task[t].captured),
                        !.parts = StyledParts(task[t].mode)]]
               /\ UNCHANGED <<disabled, spinner, errorArea, resultContentArea>>
    /\ UNCHANGED <<running, currentDownloadableUrl, sceneAssist>>
    /\ UNCHANGED promptVars
    /\ UNCHANGED asideVars

\* The remote call settles: the image replaces the spinner of the
\* placeholder, or the catch empties the result area.
ShifterStyledSettles(t) ==
    /\ running = 0
    /\ task[t].kind = "shifter-styled"
    /\ task[t].pc = "call"
    /\ \E r \in Responses :
        CASE r = "image" ->
                /\ task' = [task EXCEPT ![t] =
                        [Finished(task[t], "success") EXCEPT
                            !.grid[1].content = "image"]]
                /\ disabled' = EnableAll(disabled)
                /\ UNCHANGED <<errorArea, resultContentArea, spinner>>
          [] r = "no_image" ->
                FailGrid(t, "no_payload", StyledNoImage(task[t].mode))
          [] OTHER -> FailGrid(t, "raised", RemoteError)
    /\ UNCHANGED <<running, currentDownloadableUrl, sceneAssist>>
    /\ UNCHANGED promptVars
    /\ UNCHANGED asideVars

----------------------------------------------------------------------------
(* The AI image generator and the prompt suggestion of the product studio  *)

\* The texts typed into ai-prompt-input and ai-negative-prompt-input.
AiPromptTexts == {"", "a lighthouse at dusk"}
AiNegativeTexts == {"", "blurry"}

\* finalPromptString of generateAiImageGeneratorImage.
AiGeneratorPrompt(finalPrompt, negativePrompt) ==
    <<Fragment("ABSOLUTE_REALISM_ENGINE", <<>>), Fragment("prompt", <<finalPrompt>>)>>
    \o (IF negativePrompt # ""
            THEN <<Fragment("AVOID", <<negativePrompt>>)>> ELSE <<>>)

\* case 'ai-image-generator-btn': generateAiImageGeneratorImage up to its
\* await; it checks no input and issues its call within the click.
ClickAiGenerator ==
    /\ running = 0
    /\ HandlerAccepts("ai-image-generator-btn")
    /\ CanStart
    /\ \E finalPrompt \in AiPromptTexts, negativePrompt \in AiNegativeTexts :
        task' = [task EXCEPT ![NewTask] =
            [NoTask EXCEPT !.kind = "ai-generator", !.pc = "call", !.calls = 1,
                !.prompt = AiGeneratorPrompt(finalPrompt, negativePrompt),
                !.invokedPrompt = AiGeneratorPrompt(finalPrompt, negativePrompt),
                !.parts = <<TextPart>>]]
    /\ spinner' = spinner \cup {"ai-image-generator"}
    /\ errorArea' = [errorArea EXCEPT !["ai-image-generator"] = "hidden"]
    /\ resultContentArea' = [resultContentArea EXCEPT !["ai-image-generator"] = <<>>]
    /\ disabled' = DisableAll(disabled)
    /\ UNCHANGED <<running, currentDownloadableUrl, sceneAssist>>
    /\ UNCHANGED promptVars
    /\ UNCHANGED asideVars

\* The call of generateAiImageGeneratorImage settles.
AiGeneratorSettles(t) ==
    /\ running = 0
    /\ task[t].kind = "ai-generator"
    /\ task[t].pc = "call"
    /\ \E r \in Responses :
        CASE r = "image" -> SucceedSingle(t, "ai-image-generator")
          [] r = "no_image" ->
                FailSingle(t, "ai-image-generator", "no_payload",
                           "The AI was unable to generate an image for this prompt.")
          [] OTHER -> FailSingle(t, "ai-image-generator", "raised", RemoteError)
    /\ UNCHANGED <<running, sceneAssist>>
    /\ UNCHANGED promptVars
    /\ UNCHANGED asideVars

\* The prompt a suggestion writes into #prompt-input.
SuggestedPrompt == "a suggested prompt"

\* case 'suggest-prompt-btn': suggestProductPrompt up to its first await, or
\* to its return when no product image is attached.
ClickSuggestPrompt ==
    /\ running = 0
    /\ HandlerAccepts("suggest-prompt-btn")
    /\ CanStart
    /\ IF "product-image-input" \notin files
         THEN /\ task' = [task EXCEPT ![NewTask] =
                    [Aborted("suggest-prompt") EXCEPT !.alert =
                        "Please upload a Product Image first to get a suggestion."]]
              /\ disabled' = EnableAll(DisableAll(disabled))
         ELSE /\ task' = [task EXCEPT ![NewTask] =
                    [NoTask EXCEPT !.kind = "suggest-prompt", !.pc = "resize"]]
              /\ disabled' = DisableAll(disabled)
    /\ UNCHANGED <<running, spinner, errorArea, resultContentArea,
                   currentDownloadableUrl, sceneAssist>>
    /\ UNCHANGED promptVars
    /\ UNCHANGED asideVars

\* The awaits of resizeImageFile in suggestProductPrompt settle: the call is
\* issued, or the catch reports the failure and the handler's finally runs.
SuggestResized(t) ==
    /\ running = 0
    /\ task[t].kind = "suggest-prompt"
    /\ task[t].pc = "resize"
    /\ \E resized \in BOOLEAN :
        IF resized
          THEN /\ task' = [task EXCEPT ![t] =
                    [@ EXCEPT !.pc = "call", !.calls = @ + 1,
                        !.parts =
                            IF hasReferenceImage
                              THEN <<resizeImageFile("product-image-input"),
                                     resizeImageFile("reference-image-input"),
                                     TextPart>>
                              ELSE <<resizeImageFile("product-image-input"),
                                     TextPart>>]]
               /\ UNCHANGED disabled
          ELSE /\ task' = [task EXCEPT ![t] =
                    [Finished(task[t], "raised") EXCEPT !.alert =
                        "Could not generate a prompt suggestion. Please try again."]]
               /\ disabled' = EnableAll(disabled)
    /\ UNCHANGED <<running, spinner, errorArea, resultContentArea,
                   currentDownloadableUrl, sceneAssist>>
    /\ UNCHANGED promptVars
    /\ UNCHANGED asideVars

\* The call of suggestProductPrompt settles: the suggestion replaces the
\* text of #prompt-input, or the catch reports the failure; then the
\* handler's finally runs.
SuggestSettles(t) ==
    /\ running = 0
    /\ task[t].kind = "suggest-prompt"
    /\ task[t].pc = "call"
    /\ \E answered \in BOOLEAN :
        IF answered
          THEN /\ task' = [task EXCEPT ![t] = Finished(task[t], "success")]
               /\ promptText' = SuggestedPrompt
          ELSE /\ task' = [task EXCEPT ![t] =
                    [Finished(task[t], "raised") EXCEPT !.alert =
                        "Could not generate a prompt suggestion. Please try again."]]
               /\ UNCHANGED promptText
    /\ disabled' = EnableAll(disabled)
    /\ UNCHANGED <<running, spinner, errorArea, resultContentArea,
                   currentDownloadableUrl, sceneAssist>>
    /\ UNCHANGED <<sel, files, negativeText, masterPrompt, built>>
    /\ UNCHANGED asideVars

----------------------------------------------------------------------------
(* The time of day, the lighting selects and the Visual Wizard             *)

\* The selects whose options updateLightingOptions hides.
LightingSelectIds == {"lighting-style-select", "lighting-shadow-style-select"}

\* The options of the two selects that have a value.
ValuedOptions(id) ==
    IF id = "lighting-style-select" THEN LightingStyleTable
    ELSE ShadowStyleTable \cup {"none"}

\* The options of select id that updateLightingOptions hides for a time of
\* day: the lists of its four branches.
HiddenOptions(id, timeOfDay) ==
    IF id = "lighting-style-select"
    THEN CASE timeOfDay = "force_nighttime" ->
                {"natural_daylight", "golden_hour", "direct_sunlight", "high_key"}
           [] timeOfDay = "force_daytime" ->
                {"cinematic", "neon", "low_key", "backlit", "caustic", "dramatic_hard"}
           [] timeOfDay = "force_golden_hour" ->
                ValuedOptions(id) \ {"golden_hour", "backlit", "cinematic"}
           [] timeOfDay = "force_blue_hour" ->
                ValuedOptions(id) \ {"low_key", "backlit", "cinematic", "neon"}
           [] OTHER -> {}
    ELSE CASE timeOfDay = "force_nighttime" -> {"high_key"}
           [] timeOfDay = "force_daytime" -> {"cinematic_dramatic", "low_key", "gobo"}
           [] OTHER -> {}

\* selectedIndex = 0: the option the select was loaded with.
FirstOption(id) == InitialSelects[id]

\* updateLightingOptions on the selects s: a selected option that is now
\* hidden gives way to the first option.
updateLightingOptions(s) ==
    [id \in DOMAIN s |->
        IF id \in LightingSelectIds
              /\ s[id] \in HiddenOptions(id, s["time-of-day-select"])
          THEN FirstOption(id) ELSE s[id]]

\* The times of day and the lighting and shadow styles the user picks in the
\* model.
TimeOfDayChoices == {"keep_original", "force_nighttime", "force_daytime"}

LightingChoices(id) ==
    IF id = "lighting-style-select" THEN {"soft_studio", "golden_hour", "neon"}
    ELSE {"none", "high_key", "gobo"}

\* The manual controls carry the class wizard-disabled while the checkbox of
\* the Visual Wizard is ticked.
ManualControlsEnabled == ~wizard.checked

\* The change listener of time-of-day-select.
ChangeTimeOfDay(v) ==
    /\ running = 0
    /\ ManualControlsEnabled
    /\ v \in TimeOfDayChoices
    /\ v # sel["time-of-day-select"]
    /\ sel' = updateLightingOptions([sel EXCEPT !["time-of-day-select"] = v])
    /\ UNCHANGED <<files, promptText, negativeText, masterPrompt, built>>
    /\ UNCHANGED uiVars
    /\ UNCHANGED asideVars

\* The user picks a lighting or shadow style among the options on display;
\* no listener runs.
ChangeLighting(id, v) ==
    /\ running = 0
    /\ ManualControlsEnabled
    /\ id \in LightingSelectIds
    /\ v \in LightingChoices(id) \ HiddenOptions(id, sel["time-of-day-select"])
    /\ v # sel[id]
    /\ sel' = [sel EXCEPT ![id] = v]
    /\ UNCHANGED <<files, promptText, negativeText, masterPrompt, built>>
    /\ UNCHANGED uiVars
    /\ UNCHANGED asideVars

\* The number of reference images chosen, and of analyses started, in one
\* behaviour.
MaxFiles == 2
MaxAnalyses == 2

\* What the analysis of reference image f answers: a daylight scene for the
\* first image, a night scene for the second.
WizardSuggestions(f) ==
    IF f = 1
    THEN [lightingStyle |-> "golden_hour", cameraPerspective |-> "low_angle",
          shotType |-> "closeup", shadowStyle |-> "high_key",
          cameraKit |-> "ai_hero", productRetouchKit |-> "",
          manipulationKit |-> "", peopleRetouchKit |-> ""]
    ELSE [lightingStyle |-> "neon", cameraPerspective |-> "top_down",
          shotType |-> "wide", shadowStyle |-> "gobo",
          cameraKit |-> "", productRetouchKit |-> "texture_pop",
          manipulationKit |-> "", peopleRetouchKit |-> ""]

\* The run of analyzeReferenceImage, or of the change handler that may start
\* one, for reference image f: the handler awaits the preview, the analysis
\* the resize and then the remote call.
Analysis(f, pc) == [file |-> f, pc |-> pc, outcome |-> ""]

\* The first two statements of analyzeReferenceImage.
AnalysisStarted(w, f) ==
    [w EXCEPT !.label = "Analyzing...", !.spinner = TRUE,
              !.analyses = Append(@, Analysis(f, "resize"))]

\* The finally of analyzeReferenceImage, for the analysis at position i.
AnalysisEnded(w, i, outcome) ==
    [w EXCEPT !.label = "Visual Wizard", !.spinner = FALSE,
              !.analyses[i].pc = "done", !.analyses[i].outcome = outcome]

\* A file is chosen in #reference-image-input: the delegated change handler
\* runs up to its await of handleImagePreview.
ChooseReferenceImage ==
    /\ running = 0
    /\ wizard.file < MaxFiles
    /\ Len(wizard.analyses) < MaxAnalyses
    /\ files' = files \cup {"reference-image-input"}
    /\ wizard' = [wizard EXCEPT !.file = @ + 1,
                      !.analyses = Append(@, Analysis(wizard.file + 1, "preview"))]
    /\ UNCHANGED <<sel, promptText, negativeText, masterPrompt, built>>
    /\ UNCHANGED uiVars
    /\ UNCHANGED <<image, canvas>>

\* The preview of the chosen file is shown: the change handler goes on and
\* starts the analysis of that file if the checkbox is ticked now.
PreviewShown(i) ==
    /\ running = 0
    /\ i \in DOMAIN wizard.analyses
    /\ wizard.analyses[i].pc = "preview"
    /\ wizard' =
        IF wizard.checked
          THEN [wizard EXCEPT !.label = "Analyzing...", !.spinner = TRUE,
                              !.analyses[i].pc = "resize"]
          ELSE [wizard EXCEPT !.analyses[i].pc = "done",
                              !.analyses[i].outcome = "not started"]
    /\ UNCHANGED promptVars
    /\ UNCHANGED uiVars
    /\ UNCHANGED <<image, canvas>>

\* The change listener of the Visual Wizard checkbox: ticked with a reference
\* image in the input, it starts the analysis of that image.
ToggleVisualWizard ==
    /\ running = 0
    /\ LET toggled == [wizard EXCEPT !.checked = ~@] IN
       IF toggled.checked /\ hasReferenceImage
         THEN /\ Len(wizard.analyses) < MaxAnalyses
              /\ wizard' = AnalysisStarted(toggled, wizard.file)
         ELSE wizard' = toggled
    /\ UNCHANGED promptVars
    /\ UNCHANGED uiVars
    /\ UNCHANGED <<image, canvas>>

\* The await of resizeImageFile in analyzeReferenceImage settles: the call
\* is issued, or the catch and the finally run.
AnalysisResized(i) ==
    /\ running = 0
    /\ i \in DOMAIN wizard.analyses
    /\ wizard.analyses[i].pc = "resize"
    /\ \E resized \in BOOLEAN :
        wizard' = IF resized THEN [wizard EXCEPT !.analyses[i].pc = "call"]
                  ELSE AnalysisEnded(wizard, i, "failed")
    /\ UNCHANGED promptVars
    /\ UNCHANGED uiVars
    /\ UNCHANGED <<image, canvas>>

\* element.value = v for the selects the wizard writes: the select holds v if
\* v is the value of one of its options.
WizardSelectValue(id, v) ==
    IF id \in LightingSelectIds /\ v \notin ValuedOptions(id) THEN "" ELSE v

\* The selects after the suggestions are written: the four styles always,
\* a kit only if the suggestion names one.
SuggestionsWritten(s, suggestions) ==
    [s EXCEPT
        !["lighting-style-select"] =
            WizardSelectValue("lighting-style-select", suggestions.lightingStyle),
        !["camera-perspective-select"] = suggestions.cameraPerspective,
        !["shot-type-select"] = suggestions.shotType,
        !["lighting-shadow-style-select"] =
            WizardSelectValue("lighting-shadow-style-select", suggestions.shadowStyle),
        !["camera-kit-select"] =
            IF suggestions.cameraKit # "" THEN suggestions.cameraKit ELSE @,
        !["product-retouch-kit-select"] =
            IF suggestions.productRetouchKit # "" THEN suggestions.productRetouchKit ELSE @,
        !["manipulation-kit-select"] =
            IF suggestions.manipulationKit # "" THEN suggestions.manipulationKit ELSE @,
        !["people-retouch-kit-select"] =
            IF suggestions.peopleRetouchKit # "" THEN suggestions.peopleRetouchKit ELSE @]

\* The remote call of analyzeReferenceImage settles: the suggestions are
\* written into the selects, or the catch reports the failure; then the
\* finally runs.
AnalysisSettles(i) ==
    /\ running = 0
    /\ i \in DOMAIN wizard.analyses
    /\ wizard.analyses[i].pc = "call"
    /\ \E answered \in BOOLEAN :
        IF answered
          THEN /\ sel' = SuggestionsWritten(sel,
                            WizardSuggestions(wizard.analyses[i].file))
               /\ wizard' = AnalysisEnded(wizard, i, "written")
          ELSE /\ UNCHANGED sel
               /\ wizard' = AnalysisEnded(wizard, i, "failed")
    /\ UNCHANGED <<files, promptText, negativeText, masterPrompt, built>>
    /\ UNCHANGED uiVars
    /\ UNCHANGED <<image, canvas>>

----------------------------------------------------------------------------
(* Changes to the selects: by the user, and by AI Scene Assist             *)

\* The option values of the selects that change in the model; every other
\* select keeps its initial option.
Options(id) ==
    CASE id = "weather-atmosphere-select" -> {"clear_skies", "heavy_rain"}
      [] id = "mockup-background-style-select" -> {"studio_backdrop", "urban_street"}
      [] id = "mockup-lighting-mood-select" -> {"bright_airy", "moody_dramatic"}
      [] id = "mockup-style-select" -> {"screen_print", "embroidery"}
      [] id = "mockup-color-grade-select" -> {"natural", "teal_orange"}
      [] id = "shifter-style-select" ->
            {"photorealistic_render", "claymation_stop_motion"}
      [] id = "shifter-lighting-select" -> {"soft_studio", "dramatic_hard"}
      [] OTHER -> {InitialSelects[id]}

\* The selects the user changes in the model.
UserSelectIds ==
    {"mockup-style-select", "shifter-style-select", "shifter-lighting-select"}

\* A change event of a select.
ChangeSelect(id, v) ==
    /\ running = 0
    /\ id \in UserSelectIds
    /\ v \in Options(id)
    /\ v # sel[id]
    /\ sel' = [sel EXCEPT ![id] = v]
    /\ UNCHANGED <<files, promptText, negativeText, masterPrompt, built>>
    /\ UNCHANGED uiVars
    /\ UNCHANGED asideVars

\* select.value = v: the select holds v if v is one of its options, and no
\* option otherwise.
SetSelectValue(id, v) == IF v \in Options(id) THEN v ELSE ""

\* The suggestions a response of the analysis can carry.
SceneSuggestions ==
    {[backgroundStyle |-> "urban_street", lightingMood |-> "moody_dramatic",
      applicationStyle |-> "embroidery", colorGrade |-> "teal_orange"],
     [backgroundStyle |-> "a sunny beach", lightingMood |-> "moody_dramatic",
      applicationStyle |-> "embroidery", colorGrade |-> "teal_orange"]}

\* The AI Scene Assist checkbox is ticked with a product image attached:
\* analyzeForSceneAssist runs up to its first await.
ToggleSceneAssist ==
    /\ running = 0
    /\ sceneAssist = "idle"
    /\ "mockup-product-image-input" \in files
    /\ sceneAssist' = "resize"
    /\ UNCHANGED <<disabled, task, running, spinner, errorArea,
                   resultContentArea, currentDownloadableUrl>>
    /\ UNCHANGED promptVars
    /\ UNCHANGED asideVars

\* The await of resizeImageFile in analyzeForSceneAssist settles.
SceneAssistResized ==
    /\ running = 0
    /\ sceneAssist = "resize"
    /\ \E resized \in BOOLEAN :
        sceneAssist' = IF resized THEN "call" ELSE "idle"
    /\ UNCHANGED <<disabled, task, running, spinner, errorArea,
                   resultContentArea, currentDownloadableUrl>>
    /\ UNCHANGED promptVars
    /\ UNCHANGED asideVars

\* The analysis settles: its suggestions are written into the four mockup
\* selects, or it failed and the selects stay.
SceneAssistSettles ==
    /\ running = 0
    /\ sceneAssist = "call"
    /\ \/ \E suggestions \in SceneSuggestions :
            sel' = [sel EXCEPT
                !["mockup-background-style-select"] =
                    SetSelectValue("mockup-background-style-select",
                                   suggestions.backgroundStyle),
                !["mockup-lighting-mood-select"] =
                    SetSelectValue("mockup-lighting-mood-select",
                                   suggestions.lightingMood),
                !["mockup-style-select"] =
                    SetSelectValue("mockup-style-select",
                                   suggestions.applicationStyle),
                !["mockup-color-grade-select"] =
                    SetSelectValue("mockup-color-grade-select",
                                   suggestions.colorGrade)]
       \/ UNCHANGED sel
    /\ sceneAssist' = "idle"
    /\ UNCHANGED <<files, promptText, negativeText, masterPrompt, built>>
    /\ UNCHANGED <<disabled, task, running, spinner, errorArea,
                   resultContentArea, currentDownloadableUrl>>
    /\ UNCHANGED asideVars

----------------------------------------------------------------------------
(* The specifications of the page.  Each starts from the loaded page with  *)
(* some files attached and lets the user act on one part of it.            *)

\* The loaded page with the files in attached and the texts typed.
PageInit(attached) ==
    /\ sel = InitialSelects
    /\ files = attached
    /\ promptText = "a red mug"
    /\ negativeText = "blurry"
    /\ masterPrompt = <<>>
    /\ built = FALSE
    /\ UIStart

PhotoshootInit ==
    \E attached \in SUBSET {"photoshoot-product-image-input"} : PageInit(attached)

PhotoshootNext ==
    \/ ClickPhotoshoot
    \/ \E t \in TaskIds : PhotoshootResized(t)
    \/ \E t \in TaskIds : MapShot(t)
    \/ \E t \in TaskIds, i \in 1..Len(ShotCatalog) : ShotSettles(t, i)
    \/ ClickTooltip

PhotoshootSpec == PhotoshootInit /\ [][PhotoshootNext]_vars

\* Every await settles: the resize, and every remote call; the synchronous
\* map runs to its end.
PhotoshootFairness ==
    /\ \A t \in TaskIds : WF_vars(PhotoshootResized(t))
    /\ \A t \in TaskIds : WF_vars(MapShot(t))
    /\ \A t \in TaskIds, i \in 1..Len(ShotCatalog) : WF_vars(ShotSettles(t, i))

FairPhotoshootSpec == PhotoshootSpec /\ PhotoshootFairness

ShifterInit ==
    \E attached \in SUBSET {"shifter-2d-image-input", "shifter-texture-input"} :
        PageInit(attached)

ShifterNext ==
    \/ ClickShifter3D
    \/ \E t \in TaskIds : ShifterResized(t)
    \/ \E t \in TaskIds : ShifterSettles(t)
    \/ ClickTurntable
    \/ \E t \in TaskIds : TurntableResized(t)
    \/ \E t \in TaskIds : TurntableSettles(t)
    \/ ClickTooltip

ShifterSpec == ShifterInit /\ [][ShifterNext]_vars

\* The file inputs of the studios.
InputIds ==
    {"product-image-input", "reference-image-input", "mockup-design-image-input",
     "mockup-product-image-input", "shifter-2d-image-input",
     "shifter-texture-input", "photoshoot-product-image-input"}

\* Every button of the page, with every input attached or none.
GuardInit == \E attached \in {{}, InputIds} : PageInit(attached)

GuardNext ==
    \/ ClickProductStudio
    \/ \E t \in TaskIds : ProductEncoded(t)
    \/ \E t \in TaskIds : ProductSettles(t)
    \/ ClickMockup
    \/ \E t \in TaskIds : MockupResized(t)
    \/ \E t \in TaskIds : MockupSettles(t)
    \/ ShifterNext
    \/ PhotoshootNext
    \/ ClickDownload

GuardSpec == GuardInit /\ [][GuardNext]_vars

\* Every studio of the page.  The inputs attached are all, none, or the
\* first of each pair a studio requires.
StudioInputIds ==
    InputIds \cup {"blender-image-input-1", "blender-image-input-2",
                   "shifter-style-reference-input"}

FirstInputs ==
    {"mockup-design-image-input", "blender-image-input-1",
     "shifter-2d-image-input", "photoshoot-product-image-input"}

StudioInit == \E attached \in {{}, FirstInputs, StudioInputIds} : PageInit(attached)

StudioNext ==
    \/ GuardNext
    \/ ClickBlender
    \/ \E t \in TaskIds : BlenderResized(t)
    \/ \E t \in TaskIds : BlenderSettles(t)
    \/ ClickShifterStyled
    \/ \E t \in TaskIds : ShifterStyledResized(t)
    \/ \E t \in TaskIds : ShifterStyledSettles(t)

StudioSpec == StudioInit /\ [][StudioNext]_vars

\* The mockup studio and the standard transformation, with the selects
\* changing under them; one generation is started and followed to its end.
NothingStarted == \A t \in TaskIds : task[t].kind = "none"

SnapshotInit ==
    PageInit({"mockup-design-image-input", "mockup-product-image-input",
              "shifter-2d-image-input"})

SnapshotNext ==
    \/ NothingStarted /\ ClickMockup
    \/ \E t \in TaskIds : MockupResized(t)
    \/ \E t \in TaskIds : MockupSettles(t)
    \/ NothingStarted /\ ClickShifter3D
    \/ \E t \in TaskIds : ShifterResized(t)
    \/ \E t \in TaskIds : ShifterSettles(t)
    \/ \E id \in UserSelectIds : \E v \in Options(id) : ChangeSelect(id, v)
    \/ ToggleSceneAssist
    \/ SceneAssistResized
    \/ SceneAssistSettles

SnapshotSpec == SnapshotInit /\ [][SnapshotNext]_vars

\* The rule tables under values they do not list.  At most two of the
\* selects with a rule table hold the same odd value, the empty value or a
\* value no table lists; the master prompt is built, and one transformation
\* or turntable is run.
RuleSelectIds ==
    (MasterSelectIds \ {"reference-usage-select", "download-quality-select"})
    \cup {"shifter-style-select", "shifter-dof-select"}

OddValues == {"", "unlisted"}

MaxOdd == 2

RuleTableInit ==
    /\ \E S \in SUBSET RuleSelectIds, v \in OddValues :
        /\ Cardinality(S) <= MaxOdd
        /\ sel = [id \in SelectIds |-> IF id \in S THEN v ELSE InitialSelects[id]]
    /\ files = {"shifter-2d-image-input"}
    /\ promptText = "a red mug"
    /\ negativeText = "blurry"
    /\ masterPrompt = <<>>
    /\ built = FALSE
    /\ UIStart

RuleTableNext ==
    \/ BuildPrompt
    \/ NothingStarted /\ ClickShifter3D
    \/ \E t \in TaskIds : ShifterResized(t)
    \/ \E t \in TaskIds : ShifterSettles(t)
    \/ NothingStarted /\ ClickTurntable
    \/ \E t \in TaskIds : TurntableResized(t)
    \/ \E t \in TaskIds : TurntableSettles(t)

RuleTableSpec == RuleTableInit /\ [][RuleTableNext]_vars

\* The order of assembly.  Each select of AssemblySelectIds holds either a
\* value that makes its part of the prompt appear or one that keeps it out;
\* the negative prompt is absent, blank, plain or padded with spaces.
AssemblySelectIds ==
    {"shot-type-select", "camera-perspective-select", "lighting-style-select",
     "lighting-shadow-style-select", "time-of-day-select", "camera-kit-select",
     "product-retouch-kit-select", "manipulation-kit-select",
     "people-retouch-kit-select", "weather-atmosphere-select",
     "reference-usage-select"}

Emitting(id) ==
    CASE id = "shot-type-select" -> "hero"
      [] id = "camera-perspective-select" -> "front_view"
      [] id = "lighting-style-select" -> "golden_hour"
      [] id = "lighting-shadow-style-select" -> "gobo"
      [] id = "time-of-day-select" -> "force_nighttime"
      [] id = "camera-kit-select" -> "ai_hero"
      [] id = "product-retouch-kit-select" -> "texture_pop"
      [] id = "manipulation-kit-select" -> "grain_halation"
      [] id = "people-retouch-kit-select" -> "natural_skin"
      [] id = "weather-atmosphere-select" -> "heavy_rain"
      [] OTHER -> "full_scene_emulation"

Silent(id) ==
    CASE id \in {"shot-type-select", "camera-perspective-select",
                 "lighting-style-select"} -> "unlisted"
      [] id = "lighting-shadow-style-select" -> "none"
      [] id = "time-of-day-select" -> "keep_original"
      [] id = "weather-atmosphere-select" -> "clear_skies"
      [] id = "reference-usage-select" -> "none"
      [] OTHER -> ""

AssemblyNegativeTexts == {"", " ", "blurry", " blurry "}

AssemblyInit ==
    /\ \E E \in SUBSET AssemblySelectIds :
        sel = [id \in SelectIds |->
                  IF id \in E THEN Emitting(id)
                  ELSE IF id \in AssemblySelectIds THEN Silent(id)
                  ELSE InitialSelects[id]]
    /\ files \in SUBSET {"reference-image-input"}
    /\ promptText = "a red mug"
    /\ negativeText \in AssemblyNegativeTexts
    /\ masterPrompt = <<>>
    /\ built = FALSE
    /\ UIStart

AssemblyNext == BuildPrompt

AssemblySpec == AssemblyInit /\ [][AssemblyNext]_vars

\* resizeImageFile on images of every size: the edges of the decoded image are
\* drawn from values around maxSize, around its double, and far from both.
EdgeValues ==
    {1, 2, 3, 500, 683, 1023, 1024, 1025, 1026, 1365, 1536, 2047, 2048, 2049,
     3000, 4000}

ResizeInit ==
    /\ sel = InitialSelects
    /\ files = {}
    /\ promptText = ""
    /\ negativeText = ""
    /\ masterPrompt = <<>>
    /\ built = FALSE
    /\ disabled = [b \in Buttons |-> b = "download-btn"]
    /\ task = [t \in TaskIds |-> NoTask]
    /\ running = 0
    /\ spinner = {}
    /\ errorArea = [s \in Studios |-> "hidden"]
    /\ resultContentArea = [s \in Studios |-> <<>>]
    /\ currentDownloadableUrl = 0
    /\ sceneAssist = "idle"
    /\ wizard = WizardStart
    /\ image \in [width : EdgeValues, height : EdgeValues]
    /\ canvas = NoCanvas

ResizeNext == ImageLoaded

ResizeSpec == ResizeInit /\ [][ResizeNext]_vars

\* The download button: the product studio, the AI image generator, the
\* prompt suggestion, the download button and a tooltip icon, with the
\* product image attached or not.
DownloadInit ==
    \E attached \in SUBSET {"product-image-input"} : PageInit(attached)

DownloadNext ==
    \/ ClickProductStudio
    \/ \E t \in TaskIds : ProductEncoded(t)
    \/ \E t \in TaskIds : ProductSettles(t)
    \/ ClickAiGenerator
    \/ \E t \in TaskIds : AiGeneratorSettles(t)
    \/ ClickSuggestPrompt
    \/ \E t \in TaskIds : SuggestResized(t)
    \/ \E t \in TaskIds : SuggestSettles(t)
    \/ ClickDownload
    \/ ClickTooltip

DownloadSpec == DownloadInit /\ [][DownloadNext]_vars

\* The product studio under every use of the reference image: the product
\* image is attached, the reference image attached or not, the usage one of
\* two modes or 'none', the weather clear or not.
ReferenceUsages == {"full_scene_emulation", "object_swap", "none"}

ReferenceInit ==
    /\ \E usage \in ReferenceUsages, weather \in {"clear_skies", "heavy_rain"} :
        sel = [InitialSelects EXCEPT !["reference-usage-select"] = usage,
                                     !["weather-atmosphere-select"] = weather]
    /\ \E attached \in SUBSET {"reference-image-input"} :
        files = {"product-image-input"} \cup attached
    /\ promptText = "a red mug"
    /\ negativeText = "blurry"
    /\ masterPrompt = <<>>
    /\ built = FALSE
    /\ UIStart

ReferenceNext ==
    \/ ClickProductStudio
    \/ \E t \in TaskIds : ProductEncoded(t)
    \/ \E t \in TaskIds : ProductSettles(t)

ReferenceSpec == ReferenceInit /\ [][ReferenceNext]_vars

\* The Visual Wizard: the user changes the time of day and the lighting
\* styles, chooses reference images and ticks the checkbox.
WizardInit == PageInit({})

WizardNext ==
    \/ \E v \in TimeOfDayChoices : ChangeTimeOfDay(v)
    \/ \E id \in LightingSelectIds : \E v \in LightingChoices(id) : ChangeLighting(id, v)
    \/ ChooseReferenceImage
    \/ \E i \in 1..MaxAnalyses : PreviewShown(i)
    \/ ToggleVisualWizard
    \/ \E i \in 1..MaxAnalyses : AnalysisResized(i)
    \/ \E i \in 1..MaxAnalyses : AnalysisSettles(i)

WizardSpec == WizardInit /\ [][WizardNext]_vars

----------------------------------------------------------------------------
(* Properties of the mode resolution, read off the assembled prompt.       *)

\* The directive blocks of a prompt: the interpolated text of every
\* "CRITICAL Directive" fragment.
Directives(p) == {p[i].args : i \in {j \in DOMAIN p : p[j].tag = "CRITICAL Directive"}}

NumDirectives(p) == Cardinality({j \in DOMAIN p : p[j].tag = "CRITICAL Directive"})

HasInpaintingDirective(p) == \E d \in Directives(p) : d[1] = "inpainting task"

HasTag(p, tag) == \E i \in DOMAIN p : p[i].tag = tag

WeatherRead == getSelectedValue("weather-atmosphere-select", "clear_skies")
SeasonRead == getSelectedValue("season-override-select", "keep_original")
AtmosphereRequested == WeatherRead # "clear_skies" \/ SeasonRead # "keep_original"

\* C1: with a reference image attached and the usage selector on one of the
\* six named modes, the prompt carries exactly one directive block, the one
\* of that mode, whatever the weather and season.
C1_ReferenceModeDirective ==
    (built /\ hasReferenceImage
       /\ sel["reference-usage-select"] \in ReferenceDirectiveTable)
    => /\ Directives(masterPrompt) = {<<sel["reference-usage-select"]>>}
       /\ NumDirectives(masterPrompt) = 1

C1_Witness ==
    /\ built /\ hasReferenceImage
    /\ sel["reference-usage-select"] = "object_swap"
    /\ sel["weather-atmosphere-select"] = "heavy_rain"
    /\ sel["season-override-select"] = "winter"
    /\ Directives(masterPrompt) = {<<"object_swap">>}

\* C2: without a reference image, for every usage value, the prompt carries
\* the plain-inpainting directive exactly when weather is not clear_skies or
\* season is not keep_original, and carries no directive block otherwise.
C2_NoReferenceMode ==
    (built /\ ~hasReferenceImage)
    => IF AtmosphereRequested
       THEN HasInpaintingDirective(masterPrompt) /\ NumDirectives(masterPrompt) = 1
       ELSE NumDirectives(masterPrompt) = 0

C2_Witness ==
    /\ built /\ ~hasReferenceImage
    /\ sel["reference-usage-select"] = "object_swap"
    /\ sel["weather-atmosphere-select"] = "clear_skies"
    /\ sel["season-override-select"] = "winter"
    /\ HasInpaintingDirective(masterPrompt)

----------------------------------------------------------------------------
(* Properties of the photoshoot batch.                                     *)

IsBatch(t) == task[t].kind = "photoshoot"

ShotFailed(item) == item.response \in {"no_image", "raise"}

\* Every shot of the batch has its placeholder and its call has settled.
EveryShotSettled(t) ==
    /\ Len(task[t].grid) = Len(task[t].items)
    /\ \A i \in DOMAIN task[t].grid : task[t].grid[i].call = "settled"

\* C4 (batch isolation): in a photoshoot batch each placeholder carries the
\* title of its own shot; a shot whose call returned an image shows that
\* image in its own placeholder whatever happened to the other shots; a shot
\* whose call raised or returned no image shows the inline error marker in
\* its own placeholder; no shot failure rejects the batch, and the error
\* area of the studio only ever shows a failure of the setup.
C4_BatchIsolation ==
    /\ \A t \in TaskIds : IsBatch(t) =>
        /\ \A i \in DOMAIN task[t].grid :
            LET item == task[t].grid[i] IN
            /\ item.header = task[t].items[i].title
            /\ item.call = "pending" => item.content = "spinner"
            /\ item.response = "image" => item.content = "image"
            /\ ShotFailed(item) => item.content = "error"
        /\ task[t].outcome # "raised"
        /\ (task[t].pc = "done" /\ task[t].calls > 0) => task[t].outcome = "success"
    /\ errorArea["virtual-photoshoot"] \in
            {"hidden", UserInputRequired, "An unknown error occurred during setup."}

\* A finished batch of two shots in which one shot failed and the other
\* shows its image.
C4_Witness ==
    \E t \in TaskIds :
        /\ IsBatch(t)
        /\ task[t].pc = "done"
        /\ Len(task[t].grid) = 2
        /\ \E i, j \in DOMAIN task[t].grid :
            /\ task[t].grid[i].response = "raise"
            /\ task[t].grid[i].content = "error"
            /\ task[t].grid[j].response = "image"
            /\ task[t].grid[j].content = "image"

\* C5 as stated: once the remote call of any shot has been started, the
\* placeholders of all K shots exist.
C5_Original ==
    \A t \in TaskIds :
        (IsBatch(t) /\ task[t].calls > 0) => Len(task[t].grid) = Len(task[t].items)

\* C5 (placeholders and calls): every shot whose remote call has been
\* started has its own placeholder, and the placeholders of all K shots
\* exist before the call of any shot settles.
C5_PlaceholdersBeforeSettle ==
    \A t \in TaskIds : IsBatch(t) =>
        /\ task[t].calls <= Len(task[t].grid)
        /\ \A i \in DOMAIN task[t].grid : task[t].grid[i].call # "none"
        /\ (\E i \in DOMAIN task[t].grid : task[t].grid[i].call = "settled")
                => Len(task[t].grid) = Len(task[t].items)

\* A batch of two shots of which one has settled while the other is pending.
C5_Witness ==
    \E t \in TaskIds :
        /\ IsBatch(t)
        /\ Len(task[t].items) = 2
        /\ Len(task[t].grid) = 2
        /\ \E i, j \in DOMAIN task[t].grid :
            /\ task[t].grid[i].call = "settled"
            /\ task[t].grid[j].call = "pending"

\* The step with which batch t returns to the click handler.
BatchCompletes(t) == IsBatch(t) /\ task[t].pc # "done" /\ task'[t].pc = "done"

\* C6 (batch join): a batch whose calls were started is complete only when
\* every one of its K calls has settled; the step that completes it leaves
\* every action button but the download button enabled; a batch completes
\* at most once, and every started batch eventually completes, given that
\* every await settles.
C6_BatchJoin ==
    /\ [](\A t \in TaskIds :
            /\ (IsBatch(t) /\ task[t].pc = "done" /\ task[t].calls > 0)
                    => EveryShotSettled(t)
            /\ task[t].completions <= 1
            /\ task[t].pc = "done" <=> task[t].completions = 1)
    /\ [][\A t \in TaskIds : BatchCompletes(t) =>
            \A b \in Buttons \ {"download-btn"} : ~disabled'[b]]_vars
    /\ \A t \in TaskIds :
            (IsBatch(t) /\ task[t].pc # "done") ~> (task[t].completions = 1)

\* A batch of two shots that completed after both calls settled.
C6_Witness ==
    \E t \in TaskIds :
        /\ IsBatch(t)
        /\ task[t].pc = "done"
        /\ task[t].outcome = "success"
        /\ Len(task[t].items) = 2
        /\ EveryShotSettled(t)
        /\ \A b \in Buttons \ {"download-btn"} : ~disabled[b]

----------------------------------------------------------------------------
(* Properties of the turntable and the per-angle 3D render.                *)

IsSingleCall(t) == task[t].kind \in {"shifter-3d", "turntable"}

CallFailed(r) == r.calls > 0 /\ r.outcome \in {"raised", "no_payload"}

\* The one prompt of the task names every view or angle of the task.
NamesEveryItem(t) ==
    LET p == task[t].prompt
        tag == IF task[t].kind = "turntable"
                    THEN "Step 3: Render Turntable Views"
                    ELSE "ABSOLUTE HIGHEST PRIORITY COMMAND"
    IN  Len(task[t].items) > 0 =>
            \E i \in DOMAIN p : p[i].tag = tag /\ p[i].args = task[t].items

----------------------------------------------------------------------------
(* Properties of the click handler's guard.                                *)

\* C8 as stated: while one generation action is pending no second one is
\* started, whatever is clicked.
C8_NoOverlap == Cardinality({t \in TaskIds : Active(t)}) <= 1

\* The step with which task t returns to the click handler for good.
Ends(t) == task[t].pc # "done" /\ task'[t].pc = "done"

SingleImageSuccess(r) ==
    r.kind \in {"product-studio", "mockup"} /\ r.outcome = "success"

----------------------------------------------------------------------------
(* Properties of the configuration read by a generation.                   *)

\* C10 as stated: the prompt sent by a generation is the prompt assembled
\* from the selects as they were when the generation was invoked.
C10_Snapshot ==
    \A t \in TaskIds : task[t].calls > 0 => task[t].prompt = task[t].invokedPrompt

----------------------------------------------------------------------------
(* Properties of the image parts of the remote calls.                      *)

ImageParts(r) == {r.parts[i] : i \in {j \in DOMAIN r.parts : r.parts[j].kind = "image"}}

\* C11: every image part embedded in a remote call has passed through the
\* resize step, so that its longer edge is at most 1024 pixels; no call
\* carries an image encoded directly from the uploaded file.
C11_ResizedBeforeEncoding ==
    \A t \in TaskIds :
        task[t].calls > 0 =>
            \A part \in ImageParts(task[t]) :
                part.resized /\ part.edge <= maxSize

\* The product studio has issued its call with the product image as uploaded.
C11_Witness ==
    \E t \in TaskIds :
        /\ task[t].kind = "product-studio"
        /\ task[t].calls > 0
        /\ \E part \in ImageParts(task[t]) :
            /\ part.input = "product-image-input"
            /\ ~part.resized
            /\ part.edge > maxSize

----------------------------------------------------------------------------
(* Properties of the failure paths of the studios.                         *)

\* The result container a generation writes to.
StudioOf(kind) ==
    CASE kind = "product-studio" -> "product-studio"
      [] kind = "ai-generator" -> "ai-image-generator"
      [] kind = "mockup" -> "mockup-studio"
      [] kind = "blender" -> "image-blender"
      [] kind = "photoshoot" -> "virtual-photoshoot"
      [] OTHER -> "shifter-3d"

\* The attachments and texts the action of task record r requires, against
\* what was attached and what the action read.
RequiredInputsPresent(r) ==
    CASE r.kind = "product-studio" -> "product-image-input" \in files
      [] r.kind = "mockup" ->
            IF r.mode = "apply"
                THEN {"mockup-design-image-input", "mockup-product-image-input"}
                        \subseteq files
                ELSE "mockup-design-image-input" \in files /\ Trim(r.captured) # ""
      [] r.kind = "blender" -> Len(r.items) >= 2 \/ r.captured # ""
      [] r.kind = "photoshoot" ->
            "photoshoot-product-image-input" \in files /\ r.items # <<>>
      [] r.kind = "shifter-styled" ->
            IF r.mode = "clone"
                THEN {"shifter-2d-image-input", "shifter-style-reference-input"}
                        \subseteq files
                ELSE "shifter-2d-image-input" \in files /\ r.captured # ""
      [] OTHER -> "shifter-2d-image-input" \in files

\* The action of task t ends on its input check in this step.
AbortsNow(t) == task[t].outcome # "aborted" /\ task'[t].outcome = "aborted"

\* An action lacking an input has issued no call and is over, or (the
\* blender) awaits the resize of the one image it has.
NoCallWithoutInput ==
    \A t \in TaskIds :
        (task[t].kind # "none" /\ ~RequiredInputsPresent(task[t])) =>
            /\ task[t].calls = 0
            /\ task[t].pc # "call"
            /\ task[t].pc = "done" \/ (task[t].kind = "blender" /\ task[t].pc = "resize")
            /\ task[t].outcome \in {"aborted", "raised", ""}

\* The step that aborts opens an alert or shows a message in the error area
\* of the studio, and leaves every other action as it was.
AbortNotifiesAndIsLocal ==
    \A t \in TaskIds :
        AbortsNow(t) =>
            /\ ~RequiredInputsPresent(task'[t])
            /\ task'[t].calls = 0
            /\ task'[t].pc = "done"
            /\ task'[t].alert # "" \/ errorArea'[StudioOf(task'[t].kind)] # "hidden"
            /\ \A u \in TaskIds \ {t} : task'[u] = task[u]

\* C12: for every generation action (product studio, mockup in both modes,
\* image blender, photoshoot, 3D shifter in its three modes, turntable), when
\* a required attachment or text is absent the action issues no remote call,
\* notifies the user and ends the current action only.
C12_MissingInputAborts ==
    /\ []NoCallWithoutInput
    /\ [][AbortNotifiesAndIsLocal]_vars

\* The blender has aborted after resizing its only image, while another
\* generation is still in flight with its call issued.
C12_Witness ==
    \E t, u \in TaskIds :
        /\ task[t].kind = "blender"
        /\ task[t].outcome = "aborted"
        /\ Len(task[t].items) = 1
        /\ task[t].calls = 0
        /\ errorArea["image-blender"] = BlenderInputMissing
        /\ u # t
        /\ Active(u)
        /\ task[u].calls > 0

\* The single-call action of task t ends in this step with the given outcome.
EndsWith(t, outcome) ==
    /\ task[t].pc = "call"
    /\ task'[t].pc = "done"
    /\ task'[t].outcome = outcome

\* What the user sees when the action of task t has failed: a message in the
\* error area of its studio, an empty result area, and a download button
\* and a downloadable image that the failure left as they were.
FailureShown(t) ==
    /\ errorArea'[StudioOf(task[t].kind)] \notin {"hidden", ""}
    /\ resultContentArea'[StudioOf(task[t].kind)] = <<>>
    /\ disabled'["download-btn"] = disabled["download-btn"]
    /\ currentDownloadableUrl' = currentDownloadableUrl

\* Shot i of batch t settles in this step with response r.
ShotSettlesWith(t, i, r) ==
    /\ IsBatch(t)
    /\ i \in DOMAIN task[t].grid
    /\ task[t].grid[i].call = "pending"
    /\ task'[t].grid[i].call = "settled"
    /\ task'[t].grid[i].response = r

\* C13: a remote image call that returns without an image ends the operation
\* in a failure reached through the no-payload condition, not through a
\* raised call, and the user sees what a raised call shows: an error message
\* or an inline error marker, no image, and a download button that the
\* failure has not enabled.
C13_NoPayloadIsFailure ==
    [][/\ \A t \in TaskIds :
            /\ EndsWith(t, "no_payload") =>
                    /\ FailureShown(t)
                    /\ errorArea'[StudioOf(task[t].kind)] \notin {RemoteError, UnknownError}
                    /\ task'[t].calls > 0
            /\ EndsWith(t, "raised") => FailureShown(t)
       /\ \A t \in TaskIds, i \in 1..Len(ShotCatalog) :
            \A r \in {"no_image", "raise"} :
                ShotSettlesWith(t, i, r) =>
                    /\ task'[t].grid[i].content = "error"
                    /\ task'[t].outcome # "raised"
                    /\ disabled'["download-btn"] = disabled["download-btn"]
                    /\ currentDownloadableUrl' = currentDownloadableUrl]_vars

\* The product studio has failed on a response without an image and shows
\* its message with the download button disabled, and a shot of a batch has
\* settled without an image and shows the inline marker.
C13_Witness ==
    \E t, u \in TaskIds :
        /\ task[t].kind = "product-studio"
        /\ task[t].outcome = "no_payload"
        /\ errorArea["product-studio"] = "The AI was unable to process this request."
        /\ resultContentArea["product-studio"] = <<>>
        /\ disabled["download-btn"]
        /\ IsBatch(u)
        /\ \E i \in DOMAIN task[u].grid :
            /\ task[u].grid[i].response = "no_image"
            /\ task[u].grid[i].content = "error"

----------------------------------------------------------------------------
(* Properties of the rule tables and of the order of assembly.             *)

\* The rule tables of buildMasterPrompt: the select read, the tag of the
\* fragment, the listed values and the default of the read.
MasterRuleTables ==
    {[id |-> "shot-type-select", tag |-> "Composition & Framing",
      table |-> ShotTypeTable, default |-> "hero"],
     [id |-> "camera-perspective-select", tag |-> "Camera & Lens",
      table |-> CameraPerspectiveTable, default |-> "front_view"],
     [id |-> "lighting-style-select", tag |-> "Lighting Environment",
      table |-> LightingStyleTable, default |-> "soft_studio"],
     [id |-> "lighting-shadow-style-select", tag |-> "Shadow Style",
      table |-> ShadowStyleTable, default |-> "none"],
     [id |-> "time-of-day-select", tag |-> "Time of Day Override",
      table |-> TimeOfDayTable, default |-> "keep_original"],
     [id |-> "weather-atmosphere-select", tag |-> "Weather & Atmosphere",
      table |-> WeatherTable, default |-> "clear_skies"],
     [id |-> "season-override-select", tag |-> "Season Override",
      table |-> SeasonTable, default |-> "keep_original"],
     [id |-> "camera-kit-select", tag |-> "Camera Kit Directive",
      table |-> CameraKitTable, default |-> ""],
     [id |-> "product-retouch-kit-select", tag |-> "Product Retouch Directive",
      table |-> ProductRetouchTable, default |-> ""],
     [id |-> "manipulation-kit-select", tag |-> "Manipulation Directive",
      table |-> ManipulationKitTable, default |-> ""],
     [id |-> "people-retouch-kit-select", tag |-> "People Retouch Directive",
      table |-> PeopleRetouchTable, default |-> ""]}

\* The fragments of prompt p with the given tag.
TagArgs(p, tag) == {p[i].args : i \in {j \in DOMAIN p : p[j].tag = tag}}

\* The tag under which a 3D prompt carries the style instruction.
StyleTag(kind) ==
    IF kind = "turntable" THEN "Step 2: Apply 3D Style" ELSE "Apply 3D Style"

DofTag == "Optical Properties (Depth of Field)"

\* The tasks whose 3D prompt has been assembled.
Assembled3D ==
    {t \in TaskIds : task[t].kind \in {"shifter-3d", "turntable"} /\ task[t].prompt # <<>>}

RuleTagOrder ==
    <<"Composition & Framing", "Camera & Lens", "Lighting Environment",
      "Shadow Style", "Time of Day Override", "Camera Kit Directive",
      "Product Retouch Directive", "Manipulation Directive",
      "People Retouch Directive">>

RuleTags == {RuleTagOrder[k] : k \in DOMAIN RuleTagOrder}

AtmosphereTags == {"Weather & Atmosphere", "Season Override"}

NightWording == "inherent lights illuminated"
DayWording == "brightly lit by the ambient light"

ProductLightingTags ==
    {"CRITICAL PRODUCT LIGHTING", NightWording, DayWording,
     "surface materials reflect the Lighting Style"}

\* The positions in prompt p of the fragments with a tag in tags.
Positions(p, tags) == {i \in DOMAIN p : p[i].tag \in tags}

\* C15: the master prompt begins with the realism preamble; the mode
\* directive, when there is one, comes after every rule-table fragment and
\* after the product-lighting block, and is followed at once by the
\* environmental-interaction block and then the output-quality fragment,
\* which are in the prompt in that order whatever the mode.
C15_AssemblyOrder ==
    built =>
        LET p == masterPrompt
            directive == Positions(p, {"CRITICAL Directive"})
            interaction == Positions(p, {"environmentalInteractionEnginePrompt"})
            quality == Positions(p, {"Output Quality"})
        IN  /\ p[1].tag = "ABSOLUTE_REALISM_ENGINE"
            /\ Positions(p, {"ABSOLUTE_REALISM_ENGINE"}) = {1}
            /\ Cardinality(interaction) = 1
            /\ Cardinality(quality) = 1
            /\ \A e \in interaction : e + 1 \in quality
            /\ \A d \in directive :
                /\ \A j \in Positions(p, RuleTags \cup AtmosphereTags
                                          \cup ProductLightingTags) : j < d
                /\ d + 1 \in interaction

\* A reference mode with every one of the nine concerns emitting: the
\* directive is in the prompt after all of them.
C15_Witness ==
    /\ built
    /\ HasTag(masterPrompt, "CRITICAL Directive")
    /\ HasTag(masterPrompt, "CRITICAL OVERRIDE")
    /\ \A tag \in RuleTags : HasTag(masterPrompt, tag)
    /\ HasTag(masterPrompt, "AVOID AT ALL COSTS")

\* C16: the rule-table fragments of the master prompt appear in the order
\* composition/framing, camera/lens, lighting, shadow, time-of-day,
\* camera-kit, product-retouch, manipulation, people-retouch, and each
\* concern contributes at most one fragment.
C16_FragmentOrder ==
    built =>
        /\ \A tag \in RuleTags : Cardinality(Positions(masterPrompt, {tag})) <= 1
        /\ \A k1, k2 \in DOMAIN RuleTagOrder :
            k1 < k2 =>
                \A i \in Positions(masterPrompt, {RuleTagOrder[k1]}),
                   j \in Positions(masterPrompt, {RuleTagOrder[k2]}) : i < j

\* Every concern but the shadow emits: eight rule-table fragments stand
\* in the prompt, the first of them composition/framing and the last
\* people-retouch.
C16_Witness ==
    /\ built
    /\ \A tag \in RuleTags \ {"Shadow Style"} : HasTag(masterPrompt, tag)
    /\ ~HasTag(masterPrompt, "Shadow Style")
    /\ \E i, j \in DOMAIN masterPrompt :
        /\ masterPrompt[i].tag = "Composition & Framing"
        /\ masterPrompt[j].tag = "People Retouch Directive"
        /\ j = i + 7

TimeOfDayRead == getSelectedValue("time-of-day-select", "keep_original")

NightForced == TimeOfDayRead \in {"force_nighttime", "force_blue_hour"}

\* C17: the master prompt contains exactly one of the two product-lighting
\* wordings: the artificial-light wording if and only if the time of day is
\* force_nighttime or force_blue_hour, the daylight wording in every other
\* case, keep_original with shot type hero and lighting golden_hour included.
C17_ProductLightingBranch ==
    built =>
        /\ Cardinality(Positions(masterPrompt, {NightWording, DayWording})) = 1
        /\ HasTag(masterPrompt, NightWording) <=> NightForced
        /\ HasTag(masterPrompt, DayWording) <=> ~NightForced
        /\ \A i \in Positions(masterPrompt, {NightWording, DayWording}) :
            /\ masterPrompt[i - 1].tag = "CRITICAL PRODUCT LIGHTING"
            /\ masterPrompt[i + 1].tag = "surface materials reflect the Lighting Style"

\* The scenario of the hero shot in golden-hour light with the time of day
\* kept, no reference image and no negative prompt: the hero and golden-hour
\* fragments and the daylight wording are in the prompt, the night wording
\* is not.
C17_Witness ==
    /\ built
    /\ sel["shot-type-select"] = "hero"
    /\ sel["lighting-style-select"] = "golden_hour"
    /\ sel["time-of-day-select"] = "keep_original"
    /\ files = {}
    /\ negativeText = ""
    /\ TagArgs(masterPrompt, "Composition & Framing") = {<<"hero">>}
    /\ TagArgs(masterPrompt, "Lighting Environment") = {<<"golden_hour">>}
    /\ HasTag(masterPrompt, DayWording)
    /\ ~HasTag(masterPrompt, NightWording)

RefMode ==
    useReference(hasReferenceImage,
                 getSelectedValue("reference-usage-select", "full_scene_emulation"))

StandardMode == ~RefMode /\ ~AtmosphereRequested

\* The override block of a reference mode is in the prompt exactly when an
\* atmosphere is requested, right before the directive if there is one, and
\* no weather or season rule-table fragment is.
ReferenceAtmosphere ==
    RefMode =>
        /\ HasTag(masterPrompt, "CRITICAL OVERRIDE") <=> AtmosphereRequested
        /\ Cardinality(Positions(masterPrompt, {"CRITICAL OVERRIDE"})) <= 1
        /\ \A o \in Positions(masterPrompt, {"CRITICAL OVERRIDE"}),
              d \in Positions(masterPrompt, {"CRITICAL Directive"}) : d = o + 1
        /\ Positions(masterPrompt, AtmosphereTags) = {}

InpaintingMode == ~RefMode /\ AtmosphereRequested

\* Directive d names the label of the option selected in the select id.
NamesLabel(d, id) ==
    \E i \in 1..(Len(d) - 1) : d[i] = "text" /\ d[i + 1] = sel[id]

\* The number of atmosphere changes requested.
NumChanges ==
    (IF WeatherRead # "clear_skies" THEN 1 ELSE 0)
    + (IF SeasonRead # "keep_original" THEN 1 ELSE 0)

\* C19: in plain_inpainting mode the master prompt contains the short
\* fidelity-preservation directive, which names the weather label if and
\* only if weather is non-default and the season label if and only if
\* season is non-default; the prompt contains no weather or season
\* rule-table fragment, no override block and no reference-mode directive.
C19_PlainInpainting ==
    (built /\ InpaintingMode) =>
        /\ NumDirectives(masterPrompt) = 1
        /\ \A d \in Directives(masterPrompt) :
            /\ d[1] = "inpainting task"
            /\ Len(d) = 1 + (NumChanges + NumChanges)
            /\ NamesLabel(d, "weather-atmosphere-select") <=> WeatherRead # "clear_skies"
            /\ NamesLabel(d, "season-override-select") <=> SeasonRead # "keep_original"
        /\ Positions(masterPrompt, AtmosphereTags) = {}
        /\ ~HasTag(masterPrompt, "CRITICAL OVERRIDE")

\* No reference mode, weather at its default and winter selected: the
\* directive names the winter label alone.
C19_Witness ==
    /\ built
    /\ InpaintingMode
    /\ WeatherRead = "clear_skies"
    /\ sel["season-override-select"] = "winter"
    /\ Directives(masterPrompt) = {<<"inpainting task", "text", "winter">>}

\* The last fragment of prompt p.
LastFragment(p) == p[Len(p)]

\* C20 as stated: for every non-empty negative prompt text the master prompt
\* ends with an 'AVOID AT ALL COSTS' block that contains that exact text,
\* and nothing follows the block.
C20_Original ==
    (built /\ negativeText # "") =>
        LastFragment(masterPrompt) = Fragment("AVOID AT ALL COSTS", <<negativeText>>)

\* C20: for every negative prompt text that has a character other than
\* whitespace the master prompt ends with an 'AVOID AT ALL COSTS' block that
\* contains the text without its leading and trailing whitespace, the only
\* such block, and nothing follows it; for an empty or blank text there is
\* no such block and the prompt ends with the output-quality fragment.
C20_NegativeRoundTrip ==
    built =>
        /\ negativeText \in {"blurry", " blurry "} =>
            /\ LastFragment(masterPrompt) = Fragment("AVOID AT ALL COSTS", <<"blurry">>)
            /\ Positions(masterPrompt, {"AVOID AT ALL COSTS"}) = {Len(masterPrompt)}
        /\ negativeText \in {"", " "} =>
            /\ ~HasTag(masterPrompt, "AVOID AT ALL COSTS")
            /\ LastFragment(masterPrompt).tag = "Output Quality"

\* The negative prompt was typed with spaces around it: the prompt ends with
\* the block holding the text without them.
C20_Witness ==
    /\ built
    /\ negativeText = " blurry "
    /\ LastFragment(masterPrompt) = Fragment("AVOID AT ALL COSTS", <<"blurry">>)
    /\ masterPrompt[Len(masterPrompt) - 1].tag = "Output Quality"

----------------------------------------------------------------------------
(* Properties of the whole master prompt.                                  *)

\* Every select of the page holds the option it was loaded with, no
\* reference image is attached and both text fields are empty.
AllDefault ==
    /\ sel = InitialSelects
    /\ files = {}
    /\ promptText = ""
    /\ negativeText = ""

SubjectTags ==
    {"The core subject of the image is",
     "The core subject is defined by the uploaded Product Image"}

QualityWordings == {"standard", "2k", "4k"}

\* The fragments buildMasterPrompt pushes without a condition.
HasUnconditionalParts(p) ==
    /\ p # <<>>
    /\ p[1] = Fragment("ABSOLUTE_REALISM_ENGINE", <<>>)
    /\ \E i \in DOMAIN p : p[i].tag \in SubjectTags
    /\ HasTag(p, "CRITICAL PRODUCT LIGHTING")
    /\ HasTag(p, NightWording) # HasTag(p, DayWording)
    /\ HasTag(p, "surface materials reflect the Lighting Style")
    /\ HasTag(p, "environmentalInteractionEnginePrompt")
    /\ \E i \in DOMAIN p :
        /\ p[i].tag = "Output Quality"
        /\ \E q \in QualityWordings : p[i].args = <<q>>

\* C21 (completeness): for the all-default configuration and for every other
\* configuration the master prompt is non-empty and contains the realism
\* preamble, a subject fragment, the product-lighting block, the
\* environmental-interaction block and an output-quality fragment with one
\* of its three wordings.
C21_Completeness == built => HasUnconditionalParts(masterPrompt)

\* The prompt of the all-default configuration: the unconditional parts and
\* the fragments of the three default options that have an instruction.
C21_Witness ==
    /\ built
    /\ AllDefault
    /\ HasUnconditionalParts(masterPrompt)
    /\ Len(masterPrompt) = 10
    /\ masterPrompt[Len(masterPrompt)] = Fragment("Output Quality", <<"standard">>)

----------------------------------------------------------------------------
(* Properties of the completion order of the photoshoot calls.             *)

\* The grid of batch t before the step is a prefix of its grid after it, up
\* to what the placeholders show.
GridGrowsAtEnd(t) ==
    /\ Len(task'[t].grid) >= Len(task[t].grid)
    /\ \A i \in DOMAIN task[t].grid :
        task'[t].grid[i].header = task[t].grid[i].header

\* The placeholders of batch t the step writes to.
Written(t) ==
    {i \in DOMAIN task[t].grid : task'[t].grid[i] # task[t].grid[i]}

\* A step writes to at most one placeholder of a batch: one whose call was
\* pending, which settles with it and shows what its own call returned.
WritesOwnPlaceholder(t) ==
    /\ Cardinality(Written(t)) <= 1
    /\ \A i \in Written(t) :
        /\ task[t].grid[i].call = "pending"
        /\ task[t].grid[i].content = "spinner"
        /\ task'[t].grid[i].call = "settled"
        /\ task'[t].grid[i].prompt = task[t].grid[i].prompt
        /\ task'[t].grid[i].content =
                (IF task'[t].grid[i].response = "image" THEN "image" ELSE "error")

\* Placeholder i of batch t belongs to the i-th selected shot.
SelectionOrder(t) ==
    /\ Len(task[t].grid) <= Len(task[t].items)
    /\ \A i \in DOMAIN task[t].grid : task[t].grid[i].header = task[t].items[i].title

NoSpinnerLeft(t) ==
    /\ Len(task[t].grid) = Len(task[t].items)
    /\ \A i \in DOMAIN task[t].grid : task[t].grid[i].content # "spinner"

\* C23 (out-of-order completion): in whatever order the calls of a batch
\* settle, a step writes a result or an error only into the placeholder of
\* the shot whose call settled, the placeholders stay in the order in which
\* the shots were selected, and once the batch has completed after starting
\* its calls no placeholder shows a spinner.
C23_OutOfOrderCompletion ==
    /\ [](\A t \in TaskIds : IsBatch(t) =>
            /\ SelectionOrder(t)
            /\ (task[t].pc = "done" /\ task[t].calls > 0) => NoSpinnerLeft(t))
    /\ [][\A t \in TaskIds : (IsBatch(t) /\ task[t].pc # "none") =>
            GridGrowsAtEnd(t) /\ WritesOwnPlaceholder(t)]_vars

\* The call of the second shot has settled before that of the first: the
\* second placeholder shows its image, the first still its spinner.
C23_Witness ==
    \E t \in TaskIds :
        /\ IsBatch(t)
        /\ Len(task[t].grid) = 2
        /\ task[t].grid[1].call = "pending"
        /\ task[t].grid[1].content = "spinner"
        /\ task[t].grid[2].call = "settled"
        /\ task[t].grid[2].content = "image"
        /\ task[t].grid[2].header = task[t].items[2].title

----------------------------------------------------------------------------
(* Properties of the environmental-interaction block of a shot.            *)

\* The titles named by the water-clause rule.
WaterTitles ==
    {"Splash Shot", "Product submerged in water", "In nature (with dew drops)",
     "On a Sandy Beach", "Reflection Shot"}

\* The titles of the page's shot checkboxes known to the code, and the title
\* given to a checkbox without a label.
KnownTitles == StandardAngleTable \cup ScenarioTable \cup {"Custom Shot"}

\* The environmental-interaction block of prompt p.
InteractionBlock(p) ==
    p[CHOOSE i \in DOMAIN p : p[i].tag = "CRITICAL ENVIRONMENTAL INTERACTION"]

HasWaterClause(block) ==
    \E i \in DOMAIN block.args : block.args[i] = "Water Interaction"

NamesWaterAndRain(block) ==
    block.args[1] = "Analyze Environment (water, dust, rain, surfaces)"

HasFixedClauses(block) ==
    \A clause \in {"Surface Interaction", "Weathering/Aging", "Condensation",
                   "Reflections"} :
        \E i \in DOMAIN block.args : block.args[i] = clause

\* The block of a shot with the given title is narrowed as the rule says.
NarrowedAsRuled(title, block) ==
    /\ HasWaterClause(block) <=> title \in WaterTitles
    /\ NamesWaterAndRain(block) <=> title \in WaterTitles
    /\ HasFixedClauses(block)

\* C24 (water-clause narrowing): the environmental-interaction block of a
\* photoshoot shot contains the water-interaction clause, and names water
\* and rain among the elements to analyze, exactly when the title of the
\* shot is one of the five water titles; the surface, weathering,
\* condensation and reflection clauses are in the block of every shot.  This
\* holds for the prompt of every shot whose call was started, and for the
\* block assembled for every title of the page.
C24_WaterClause ==
    /\ \A t \in TaskIds : IsBatch(t) =>
        \A i \in DOMAIN task[t].grid :
            /\ Cardinality(Positions(task[t].grid[i].prompt,
                                     {"CRITICAL ENVIRONMENTAL INTERACTION"})) = 1
            /\ NarrowedAsRuled(task[t].grid[i].header,
                               InteractionBlock(task[t].grid[i].prompt))
    /\ \A title \in KnownTitles, isStandard \in BOOLEAN :
        NarrowedAsRuled(title,
            dynamicEnvironmentalInteractionPrompt(
                [title |-> title, prompt |-> "", isStandard |-> isStandard]))

\* A batch of the splash shot and the packaging shot: the block of the first
\* has the water clause, the block of the second has not.
C24_Witness ==
    \E t \in TaskIds :
        /\ IsBatch(t)
        /\ Len(task[t].grid) = 2
        /\ task[t].grid[1].header = "Splash Shot"
        /\ HasWaterClause(InteractionBlock(task[t].grid[1].prompt))
        /\ task[t].grid[2].header = "Packaging Shot"
        /\ ~HasWaterClause(InteractionBlock(task[t].grid[2].prompt))
        /\ HasFixedClauses(InteractionBlock(task[t].grid[2].prompt))

----------------------------------------------------------------------------
(* Properties of the size of the canvas of resizeImageFile.                *)

Longer(size) == IF size.width > size.height THEN size.width ELSE size.height
Shorter(size) == IF size.width > size.height THEN size.height ELSE size.width

\* r is the integer nearest to n / d, the upper one of two equally near.
IsNearest(r, n, d) == 2 * d * r - d <= 2 * n /\ 2 * n < 2 * d * r + d

\* C25 (resize bound): for every width and height of at least 1 the canvas
\* of resizeImageFile has a longer edge of at most maxSize; an image whose
\* edges are both at most maxSize keeps its width and height; otherwise the
\* edge that was the longer becomes maxSize and the other becomes the
\* rounded value of shorter * maxSize / longer.
C25_ResizeBound ==
    (canvas # NoCanvas /\ image.width >= 1 /\ image.height >= 1) =>
        /\ Longer(canvas) <= maxSize
        /\ (image.width <= maxSize /\ image.height <= maxSize) =>
            (canvas.width = image.width /\ canvas.height = image.height)
        /\ Longer(image) > maxSize =>
            /\ Longer(canvas) = maxSize
            /\ IsNearest(Shorter(canvas), Shorter(image) * maxSize, Longer(image))
            /\ image.width > image.height =>
                (canvas.width = maxSize /\ canvas.height = Shorter(canvas))
            /\ image.width <= image.height =>
                (canvas.height = maxSize /\ canvas.width = Shorter(canvas))

\* An image of 3000 by 2047 pixels was drawn on a canvas of 1024 by 699: the
\* quotient 698.7 is rounded up.
C25_Witness ==
    /\ image = [width |-> 3000, height |-> 2047]
    /\ canvas = [width |-> 1024, height |-> 699, drawn |-> TRUE]

----------------------------------------------------------------------------
(* Properties of the download button.                                      *)

\* The actions that generate images; a prompt suggestion is not one.
GenerationKinds ==
    {"product-studio", "ai-generator", "mockup", "blender", "shifter-3d",
     "shifter-styled", "turntable", "photoshoot"}

SingleImageKinds == {"product-studio", "ai-generator", "mockup", "blender"}

\* The step starts a generation action.
StartsGeneration ==
    \E t \in TaskIds : task[t].kind = "none" /\ task'[t].kind \in GenerationKinds

\* The download button is enabled and would save a result.
Downloadable == ~disabled["download-btn"] /\ currentDownloadableUrl # 0

\* C26 as stated: once a single-image generation has succeeded the download
\* button stays enabled, and keeps the result it downloads, over every
\* step that starts no generation action: a click on Download and a prompt
\* suggestion leave it enabled.
C26_DownloadStaysEnabled ==
    [][(Downloadable /\ ~StartsGeneration) =>
            /\ ~disabled'["download-btn"]
            /\ currentDownloadableUrl' = currentDownloadableUrl]_vars

\* The only action started was a single-image generation, it succeeded and
\* its image is the current result, yet the download button is disabled.
C26_Witness ==
    /\ task[1].kind \in SingleImageKinds
    /\ task[1].outcome = "success"
    /\ \A t \in TaskIds \ {1} : task[t].kind = "none"
    /\ currentDownloadableUrl = 1
    /\ resultContentArea[StudioOf(task[1].kind)] = <<"img", 1>>
    /\ disabled["download-btn"]

\* The step in which task t ends with a result it shows.
Succeeds(t) == Ends(t) /\ task'[t].outcome = "success"

\* The step in which generation t ends without a result: a rejected call, a
\* response without image, a failed preparation or a missing input.
FailsOrAborts(t) ==
    /\ Ends(t)
    /\ task'[t].kind \in GenerationKinds
    /\ task'[t].outcome # "success"

\* C27 as stated: the download button is enabled only while
\* currentDownloadableUrl holds the image of the single-image generation
\* that succeeded last: the step in which such a generation succeeds makes
\* its image the current result and enables the button, no other step
\* changes the current result, and the step in which a generation fails or
\* aborts for a missing input leaves the current result as it was and the
\* download button disabled.
C27_DownloadConsistency ==
    /\ [](~disabled["download-btn"] => currentDownloadableUrl # 0)
    /\ [][/\ \A t \in TaskIds :
                (Succeeds(t) /\ task'[t].kind \in SingleImageKinds) =>
                    (currentDownloadableUrl' = t /\ ~disabled'["download-btn"])
          /\ (\A t \in TaskIds : ~Succeeds(t)) =>
                currentDownloadableUrl' = currentDownloadableUrl
          /\ \A t \in TaskIds : FailsOrAborts(t) =>
                /\ currentDownloadableUrl' = currentDownloadableUrl
                /\ disabled'["download-btn"]]_vars

\* Two generations overlapped: the first succeeded, the second failed, and
\* the download button is enabled with the image of the first.
C27_Witness ==
    /\ task[1].kind \in SingleImageKinds
    /\ task[1].outcome = "success"
    /\ task[2].kind \in SingleImageKinds
    /\ task[2].outcome \in {"raised", "no_payload"}
    /\ currentDownloadableUrl = 1
    /\ ~disabled["download-btn"]

----------------------------------------------------------------------------
(* Properties of the reference image in the product studio's call.         *)

HasReferencePart(r) ==
    \E part \in ImageParts(r) : part.input = "reference-image-input"

HasReferenceDirective(p) ==
    \E d \in Directives(p) : d[1] \in ReferenceDirectiveTable

\* C28: in every call of the product studio the reference image is among the
\* image parts exactly when the prompt of that call was assembled in a
\* reference mode; the prompt carries a reference directive exactly when the
\* reference image is sent.
C28_PromptAndAttachmentsAgree ==
    \A t \in TaskIds :
        (task[t].kind = "product-studio" /\ task[t].calls > 0)
        => /\ HasReferencePart(task[t]) <=> (task[t].mode = "reference")
           /\ HasReferencePart(task[t]) <=> HasReferenceDirective(task[t].prompt)

\* A call issued with a reference directive in its prompt and no reference
\* image among its parts.
C28_Witness ==
    \E t \in TaskIds :
        /\ task[t].kind = "product-studio"
        /\ task[t].calls > 0
        /\ task[t].mode = "reference"
        /\ HasReferenceDirective(task[t].prompt)
        /\ ~HasReferencePart(task[t])

----------------------------------------------------------------------------
(* Properties of the Visual Wizard and of the lighting selects.            *)

\* C29: the selected lighting style and shadow style are never options that
\* updateLightingOptions hides for the selected time of day.
C29_LightingCompatible ==
    \A id \in LightingSelectIds :
        sel[id] \notin HiddenOptions(id, sel["time-of-day-select"])

\* An analysis has written the daylight style golden_hour while the time of
\* day is forced to night.
C29_Witness ==
    /\ sel["time-of-day-select"] = "force_nighttime"
    /\ sel["lighting-style-select"] = "golden_hour"
    /\ \E i \in DOMAIN wizard.analyses : wizard.analyses[i].outcome = "written"

InFlight(a) == a.pc \in {"resize", "call"}

Pending(a) == a.pc # "done"

\* C30: the spinner of the wizard is displayed while an analysis is in
\* flight; and once every analysis started has written its suggestions, with
\* the wizard still ticked, the selects hold the suggestions for the
\* reference image chosen last.
C30_StaleAnalysisDiscarded ==
    /\ (\E i \in DOMAIN wizard.analyses : InFlight(wizard.analyses[i]))
         => wizard.spinner
    /\ ( /\ wizard.checked
         /\ wizard.analyses # <<>>
         /\ \A i \in DOMAIN wizard.analyses :
                wizard.analyses[i].outcome = "written" )
         => sel = SuggestionsWritten(sel, WizardSuggestions(wizard.file))

\* Two analyses, of the first and of the second reference image, have both
\* written their suggestions, and the selects hold those for the first image.
C30_Witness ==
    /\ wizard.checked
    /\ wizard.file = 2
    /\ Len(wizard.analyses) = 2
    /\ \A i \in DOMAIN wizard.analyses : wizard.analyses[i].outcome = "written"
    /\ wizard.analyses[1].file # wizard.analyses[2].file
    /\ sel["lighting-style-select"] = WizardSuggestions(1).lightingStyle
    /\ sel["lighting-style-select"] # WizardSuggestions(2).lightingStyle

====
